---------------------------- MODULE Spec2Model ----------------------------
(***************************************************************************)
(* A model of FarCri.rs' link protocol and on-target benchmark engine.     *)
(*                                                                         *)
(*   SpecCodec     the SLIP escaping of ProxyLink::send composed with the   *)
(*                 un-escaping of ProxyLink::recv, on bounded payloads      *)
(*   SpecLink      ProxyLink::recv fed by a byte stream that the transport  *)
(*                 delivers in arbitrary non-empty reads                    *)
(*   Spec          the target engine (bencher::main) and its peer over the  *)
(*                 link, at the level of messages: the dumb front-end, the  *)
(*                 cargo-criterion front-end, or a peer that sends any      *)
(*                 downstream message at any time                           *)
(*   SpecHandshake TargetLink::new and ProxyLink::new over a duplex byte    *)
(*                 stream, then the Greeting frame and the first recv       *)
(*   SpecInbound   TargetLink::new alone, on an inbound stream of any       *)
(*                 content made of whole and cut handshake packets          *)
(*   SpecSkip      async_buf_read_skip_until_pattern on any stream, cut     *)
(*                 into fills in any way, for a short pattern               *)
(*   SpecLate      the responder begun at any offset in the sync packets    *)
(*   SpecTime      Duration + Duration and Instant - Instant near the ends  *)
(*                 of u64                                                  *)
(*   SpecGroupName Criterion::benchmark_group on names around the capacity  *)
(*                 of the group-name buffer                                *)
(*   SpecArch      Arch::from_str, Display for Arch and from_str again, on  *)
(*                 a named base with modifiers                             *)
(*   SpecSysTick   cortex_m_time::now against the SysTick counter and its   *)
(*                 handler                                                 *)
(*   SpecRtt       ReadWriteRtt polled from its read side and its write     *)
(*                 side, and the blocking RTT access                       *)
(*   SpecSample    Function::sample (warm-up, iteration budget, sampling)   *)
(*                 on bounded configurations and routine timings            *)
(*                                                                         *)
(* Bytes are numbers 0..255.  Buffers are functions over 0..N-1 so that    *)
(* the indices are those of the Rust slices.                               *)
(***************************************************************************)
EXTENDS Integers, Sequences, FiniteSets, TLC

VARIABLES
    \* ---- SpecCodec: one payload through send and back through recv
    c_pc,           \* "start" | "sent" | "received" | "failed"
    c_payload,      \* the encoded message handed to the framing code
    c_frame,        \* the bytes ProxyLink::send passed to io.write
    c_out,          \* the payload ProxyLink::recv handed to the decoder
    \* ---- ProxyLink (bencher/proxylink.rs:7-17)
    buf,            \* link_buffer, a function 0..LinkBufLen-1 -> byte
    buf_pos,        \* buf[buf_pos..buf_len] is yet to be decoded
    buf_len,        \* buf[0..buf_len] contains valid data
    buf_scan,       \* buf[buf_pos..buf_scan] is meant not to contain SLIP_FRAME_END
    \* ---- SpecLink: the environment of ProxyLink::recv
    l_pc,           \* "recv" (inside recv's loop) | "panic"
    l_stream,       \* all bytes the transport will ever deliver, in order
    l_taken,        \* how many of them io.read has returned so far
    l_delivered,    \* the payloads returned by successive recv calls
    \* ---- Spec: the link as two queues of messages
    up,             \* upstream messages written by the target, not yet read
    down,           \* downstream messages written by the peer, not yet read
    t_rx,           \* downstream messages read into link_buffer, not yet
                    \* returned by recv (send zeroes the cursors over them)
    \* ---- Spec: the target engine (bencher/mod.rs, func.rs, bencher.rs)
    t_pc,           \* where the target's single thread is
    t_mode,         \* Criterion::mode (read only after the Greeting has set it)
    gi,             \* the number of benchmark groups dropped so far
    bi,             \* the number of benchmarks run in the open group
    bencher,        \* the Bencher of the running Function::warm_up / bench:
                    \*   iterated, iters, elapsed_time, wants_elapsed_time
    locals,         \* the locals of the running benchmark:
                    \*   kind        what the routine does with its Bencher
                    \*   ctx         "warm" (Function::warm_up) | "bench" (Function::bench)
                    \*   time_start  time_start of Bencher::iter / iter_custom
                    \*   total_iters, elapsed_time   of warm_up
                    \*   n, si       out_values.len() of bench, and how many are written
                    \*   calls       the routine calls of this benchmark so far
    t_ev,           \* the last thing the target did on the link or to the routine
    t_sent,         \* the kinds of all upstream messages sent but GetInstant
    \* ---- Spec: the peer (proxy/mod.rs, proxy/dumbfront.rs, proxy/ccfront.rs)
    h_frontend,     \* "dumb" | "cc" | "free"
    h_pc,           \* "Greeting" | "Loop" | "Done" | "Failed"
    h_clock,        \* origin.elapsed() at the latest reading
    current_group,  \* ccfront: current_group.is_some()
    current_benchmark, \* ccfront: current_benchmark.is_some()
    h_last,         \* the upstream message the front-end handled last, and its answer
    \* ---- SpecHandshake: TargetLink::new (proxy/targetlink.rs) and
    \*      ProxyLink::new (bencher/proxylink.rs) over a byte stream
    wire_down,      \* bytes written by the host and not yet read by the target
    wire_up,        \* bytes written by the target and not yet read by the host
    ini,            \* TargetLink::new: its position and locals
    rsp,            \* ProxyLink::new: its position and locals
    \* ---- SpecSample: Function::sample (bencher/func.rs)
    smp             \* its position, arguments and locals

codecVars == <<c_pc, c_payload, c_frame, c_out>>
bufVars   == <<buf, buf_pos, buf_len, buf_scan>>
linkVars  == <<l_pc, l_stream, l_taken, l_delivered>>
chanVars  == <<up, down, t_rx>>
benchVars == <<bencher, locals>>
engVars   == <<t_pc, t_mode, gi, bi, benchVars, t_ev, t_sent>>
hostVars  == <<h_frontend, h_pc, h_clock, current_group, current_benchmark, h_last>>
sessVars  == <<chanVars, engVars, hostVars>>
hsVars    == <<wire_down, wire_up, ini, rsp>>
vars      == <<codecVars, bufVars, linkVars, sessVars, hsVars, smp>>

---------------------------------------------------------------------------
(* Program constants *)

SLIP_FRAME_END     == 192
SLIP_FRAME_ESC     == 219
SLIP_FRAME_ESC_END == 220
SLIP_FRAME_ESC_ESC == 221

(* Bounds of the model *)

\* The size of WorkingArea::link_buffer ([u8; 1024] in the program), scaled.
LinkBufLen == 5
\* The longest payload handed to send in SpecCodec.
MaxPayload == 3
\* The longest inbound byte stream of SpecLink.
MaxStream  == 4

\* The byte values the model draws payloads and streams from: the four bytes
\* the framing code distinguishes and one byte it treats as plain data ('A').
ByteValues ==
    {SLIP_FRAME_END, SLIP_FRAME_ESC, SLIP_FRAME_ESC_END, SLIP_FRAME_ESC_ESC, 65}

RECURSIVE SeqsUpTo(_, _)
SeqsUpTo(S, n) ==
    IF n = 0 THEN {<<>>}
    ELSE LET shorter == SeqsUpTo(S, n - 1)
         IN  shorter \cup {Append(s, x) : s \in {t \in shorter : Len(t) = n - 1}, x \in S}

Min(a, b) == IF a < b THEN a ELSE b

\* buf[from..to) as a sequence
Slice(b, from, to) == [i \in 1..(to - from) |-> b[from + i - 1]]

ZeroBuf == [i \in 0..(LinkBufLen - 1) |-> 0]

---------------------------------------------------------------------------
(* ProxyLink::send, bencher/proxylink.rs:186-259 *)

\* The serializer writes the encoded message to buf[0..n)
\* (serde_cbor SliceWrite; `unwrap` panics when it does not fit).
EncodeInto(b, p) ==
    [i \in DOMAIN b |-> IF i < Len(p) THEN p[i + 1] ELSE b[i]]

\* lines 201-204, counting only the delimiter: a faulty variant
NumExtraBytesEndOnly(b, num_bytes) ==
    Cardinality({i \in 0..(num_bytes - 1) : b[i] = SLIP_FRAME_END})

\* lines 201-204
NumExtraBytes(b, num_bytes) ==
    Cardinality({i \in 0..(num_bytes - 1) : b[i] \in {SLIP_FRAME_END, SLIP_FRAME_ESC}})

\* lines 227-231 with the two substitutes exchanged: a faulty variant
EscapeCodeSwapped(b) ==
    IF b = SLIP_FRAME_END THEN SLIP_FRAME_ESC_ESC
    ELSE IF b = SLIP_FRAME_ESC THEN SLIP_FRAME_ESC_END
    ELSE b

\* lines 227-231
EscapeCode(b) ==
    IF b = SLIP_FRAME_END THEN SLIP_FRAME_ESC_END
    ELSE IF b = SLIP_FRAME_ESC THEN SLIP_FRAME_ESC_ESC
    ELSE b

\* The in-place escaping loop, lines 225-252.  `wlen` is window.len() (the
\* window always starts at buf[0]); `read_ptr` is -1 once it has wrapped
\* around below zero, which ends the loop.
RECURSIVE EscapeLoop(_, _, _)
EscapeLoop(b, wlen, read_ptr) ==
    IF read_ptr < 0 \/ read_ptr >= wlen THEN b
    ELSE LET x    == b[read_ptr]
             code == EscapeCode(x)
         IN  IF code = x \/ wlen < 2
             THEN EscapeLoop([b EXCEPT ![wlen - 1] = x], wlen - 1, read_ptr - 1)
             ELSE EscapeLoop([b EXCEPT ![wlen - 2] = SLIP_FRAME_ESC,
                                       ![wlen - 1] = code],
                             wlen - 2, read_ptr - 1)

\* Whether send gets as far as io.write: the encoded message fits the buffer
\* (line 194) and so does the frame (lines 210-213).
SendFits(p) ==
    /\ Len(p) <= LinkBufLen
    /\ Len(p) + NumExtraBytes(EncodeInto(ZeroBuf, p), Len(p)) + 1 <= LinkBufLen

\* The buffer after send's framing, lines 191-253.
SendBuf(b, p) ==
    LET num_bytes       == Len(p)
        b1              == EncodeInto(b, p)
        num_frame_bytes == num_bytes + NumExtraBytes(b1, num_bytes) + 1
        b2              == [b1 EXCEPT ![num_frame_bytes - 1] = SLIP_FRAME_END]
    IN  EscapeLoop(b2, num_frame_bytes - 1, num_bytes - 1)

\* The bytes send passes to io.write, line 258.
SendFrame(b, p) ==
    LET num_bytes       == Len(p)
        num_frame_bytes == num_bytes + NumExtraBytes(EncodeInto(b, p), num_bytes) + 1
    IN  Slice(SendBuf(b, p), 0, num_frame_bytes)

---------------------------------------------------------------------------
(* ProxyLink::recv, bencher/proxylink.rs:114-182 *)

\* position(|&b| b == SLIP_FRAME_END) in buf[from..to): the offset from `from`
\* of the first delimiter, or -1 (None).
FindEnd(b, from, to) ==
    LET hits == {i \in from..(to - 1) : b[i] = SLIP_FRAME_END}
    IN  IF hits = {} THEN -1
        ELSE (CHOOSE i \in hits : \A j \in hits : i <= j) - from

\* The un-escaping loop, lines 130-148, over buf[packet_start..packet_end).
\* `w` is the start of the shrinking window (the write position), `r` the
\* absolute read position (w + read_ptr).  The result is the buffer and the
\* new packet_end, or ok = FALSE for panic!("invalid SLIP escape").
RECURSIVE UnescapeLoop(_, _, _, _)
UnescapeLoop(b, w, r, packet_end) ==
    IF r >= packet_end THEN [ok |-> TRUE, buf |-> b, packet_end |-> w]
    ELSE LET b1 == b[r]
         IN  IF b1 = SLIP_FRAME_ESC /\ r + 1 < packet_end
             THEN LET b2 == b[r + 1]
                  IN  IF b2 = SLIP_FRAME_ESC_END
                      THEN UnescapeLoop([b EXCEPT ![w] = SLIP_FRAME_END],
                                        w + 1, r + 2, packet_end)
                      ELSE IF b2 = SLIP_FRAME_ESC_ESC
                      THEN UnescapeLoop([b EXCEPT ![w] = SLIP_FRAME_ESC],
                                        w + 1, r + 2, packet_end)
                      ELSE [ok |-> FALSE, buf |-> b, packet_end |-> w]
             ELSE UnescapeLoop([b EXCEPT ![w] = b1], w + 1, r + 1, packet_end)

Unescape(b, packet_start, packet_end) ==
    UnescapeLoop(b, packet_start, packet_start, packet_end)

NoResult == [kind |-> "none", payload |-> <<>>]

\* What one recv call returns when the whole frame `f` arrives in one read into
\* an empty buffer: the payload handed to the decoder, or a failure.
\*   "none"  recv does not return for this input (it waits for more bytes)
RecvOneRead(f) ==
    LET b   == [i \in 0..(LinkBufLen - 1) |-> IF i < Len(f) THEN f[i + 1] ELSE 0]
        end == FindEnd(b, 0, Len(f))
    IN  IF end <= 0 THEN NoResult
        ELSE LET u == Unescape(b, 0, end)
             IN  IF u.ok THEN [kind |-> "msg", payload |-> Slice(u.buf, 0, u.packet_end)]
                 ELSE [kind |-> "panic", payload |-> <<>>]

---------------------------------------------------------------------------
(* SpecCodec *)

Payloads == SeqsUpTo(ByteValues, MaxPayload)

\* The variables the codec actions leave alone.
CodecOthers == <<bufVars, linkVars, sessVars, hsVars, smp>>

CodecInit ==
    /\ c_pc = "start"
    /\ c_payload \in Payloads
    /\ c_frame = <<>>
    /\ c_out = NoResult

\* ProxyLink::send writing what is in the buffer when the frame does not
\* fit: a faulty variant
CodecSendTruncating ==
    /\ c_pc = "start"
    /\ IF SendFits(c_payload)
       THEN /\ c_frame' = SendFrame(ZeroBuf, c_payload)
            /\ c_pc' = "sent"
       ELSE /\ c_frame' = Slice(EncodeInto(ZeroBuf, c_payload), 0,
                                Min(Len(c_payload), LinkBufLen))
            /\ c_pc' = "failed"
    /\ UNCHANGED <<c_payload, c_out>>
    /\ UNCHANGED CodecOthers

\* ProxyLink::send on a link whose buffer holds arbitrary earlier content
\* (here: zeroes).
CodecSend ==
    /\ c_pc = "start"
    /\ IF SendFits(c_payload)
       THEN /\ c_frame' = SendFrame(ZeroBuf, c_payload)
            /\ c_pc' = "sent"
       ELSE /\ c_frame' = <<>>
            /\ c_pc' = "failed"
    /\ UNCHANGED <<c_payload, c_out>>
    /\ UNCHANGED CodecOthers

\* ProxyLink::recv on the frame, delivered by one read.
CodecRecv ==
    /\ c_pc = "sent"
    /\ LET r == RecvOneRead(c_frame)
       IN  /\ c_out' = r
           /\ c_pc' = "received"
    /\ UNCHANGED <<c_payload, c_frame>>
    /\ UNCHANGED CodecOthers

CodecNext == CodecSend \/ CodecRecv

---------------------------------------------------------------------------
(* SpecLink: successive ProxyLink::recv calls on a stream delivered in
   arbitrary non-empty reads *)

LinkOthers == <<codecVars, sessVars, hsVars, smp>>

Streams == SeqsUpTo(ByteValues, MaxStream)

BufIdle ==
    /\ buf = ZeroBuf
    /\ buf_pos = 0
    /\ buf_len = 0
    /\ buf_scan = 0

CodecIdle ==
    /\ c_pc = "off"
    /\ c_payload = <<>>
    /\ c_frame = <<>>
    /\ c_out = NoResult

LinkIdle ==
    /\ l_pc = "off"
    /\ l_stream = <<>>
    /\ l_taken = 0
    /\ l_delivered = <<>>

\* ProxyLink::new leaves the cursors at 0 (lines 99-105).
LinkInit ==
    /\ BufIdle
    /\ l_pc = "recv"
    /\ l_stream \in Streams
    /\ l_taken = 0
    /\ l_delivered = <<>>

\* recv returning for every delimiter it finds, without the test of line
\* 124: a faulty variant
LinkRecvFrameAlways ==
    /\ l_pc = "recv"
    /\ LET packet_start == buf_pos
           end          == FindEnd(buf, buf_scan, buf_len)
           packet_end   == buf_scan + end
           u            == Unescape(buf, packet_start, packet_end)
       IN  /\ end >= 0
           /\ buf_scan' = buf_scan + end + 1
           /\ buf_pos' = buf_scan + end + 1
           /\ IF u.ok
              THEN /\ buf' = u.buf
                   /\ l_delivered' =
                        Append(l_delivered, Slice(u.buf, packet_start, u.packet_end))
                   /\ l_pc' = "recv"
              ELSE /\ l_pc' = "panic"
                   /\ UNCHANGED <<buf, l_delivered>>
    /\ UNCHANGED <<buf_len, l_stream, l_taken>>
    /\ UNCHANGED LinkOthers

\* One iteration of recv's loop that finds a delimiter in buf[buf_scan..buf_len)
\* (lines 116-156).  A non-empty frame is un-escaped in place and returned;
\* the next recv call starts a new loop.
LinkRecvFrame ==
    /\ l_pc = "recv"
    /\ LET packet_start == buf_pos
           end          == FindEnd(buf, buf_scan, buf_len)
       IN  /\ end >= 0
           /\ buf_scan' = buf_scan + end + 1
           /\ buf_pos' = buf_scan + end + 1
           /\ IF end > 0
              THEN LET packet_end == buf_scan + end
                       u          == Unescape(buf, packet_start, packet_end)
                   IN  IF u.ok
                       THEN /\ buf' = u.buf
                            /\ l_delivered' =
                                 Append(l_delivered, Slice(u.buf, packet_start, u.packet_end))
                            /\ l_pc' = "recv"
                       ELSE /\ l_pc' = "panic"
                            /\ UNCHANGED <<buf, l_delivered>>
              ELSE UNCHANGED <<buf, l_delivered, l_pc>>
    /\ UNCHANGED <<buf_len, l_stream, l_taken>>
    /\ UNCHANGED LinkOthers

\* No delimiter and the buffer is full (lines 159-170).
LinkRecvFull ==
    /\ l_pc = "recv"
    /\ FindEnd(buf, buf_scan, buf_len) < 0
    /\ LinkBufLen - buf_len <= 1
    /\ IF buf_pos = 0
       THEN /\ l_pc' = "panic"
            /\ UNCHANGED bufVars
       ELSE /\ buf' = [i \in DOMAIN buf |->
                          IF i < buf_len - buf_pos THEN buf[buf_pos + i] ELSE buf[i]]
            /\ buf_len' = buf_len - buf_pos
            /\ buf_pos' = 0
            /\ buf_scan' = buf_len - buf_pos
            /\ UNCHANGED l_pc
    /\ UNCHANGED <<l_stream, l_taken, l_delivered>>
    /\ UNCHANGED LinkOthers

\* The read with the scan cursor put after the new bytes: a faulty variant
LinkRecvReadScanPast ==
    /\ l_pc = "recv"
    /\ FindEnd(buf, buf_scan, buf_len) < 0
    /\ LinkBufLen - buf_len > 1
    /\ \E n \in 1..Min(LinkBufLen - buf_len, Len(l_stream) - l_taken) :
          /\ buf' = [i \in DOMAIN buf |->
                       IF i >= buf_len /\ i < buf_len + n
                       THEN l_stream[l_taken + (i - buf_len) + 1] ELSE buf[i]]
          /\ buf_scan' = buf_len + n
          /\ buf_len' = buf_len + n
          /\ l_taken' = l_taken + n
    /\ UNCHANGED <<buf_pos, l_pc, l_stream, l_delivered>>
    /\ UNCHANGED LinkOthers

\* No delimiter and there is room: io.read returns n >= 1 bytes
\* (lines 171-179).  It blocks while the transport has nothing to deliver.
LinkRecvRead ==
    /\ l_pc = "recv"
    /\ FindEnd(buf, buf_scan, buf_len) < 0
    /\ LinkBufLen - buf_len > 1
    /\ \E n \in 1..Min(LinkBufLen - buf_len, Len(l_stream) - l_taken) :
          /\ buf' = [i \in DOMAIN buf |->
                       IF i >= buf_len /\ i < buf_len + n
                       THEN l_stream[l_taken + (i - buf_len) + 1] ELSE buf[i]]
          /\ buf_scan' = buf_len
          /\ buf_len' = buf_len + n
          /\ l_taken' = l_taken + n
    /\ UNCHANGED <<buf_pos, l_pc, l_stream, l_delivered>>
    /\ UNCHANGED LinkOthers

LinkNext == LinkRecvFrame \/ LinkRecvFull \/ LinkRecvRead

---------------------------------------------------------------------------
(* Messages, bencher/protocol.rs:12-81.  A message is a record with its
   variant's name in `kind`. *)

Greeting(mode) == [kind |-> "Greeting", mode |-> mode]
Continue       == [kind |-> "Continue"]
Instant(x)     == [kind |-> "Instant", t |-> x]

BeginningBenchmarkGroup(g) == [kind |-> "BeginningBenchmarkGroup", group |-> g]
FinishedBenchmarkGroup     == [kind |-> "FinishedBenchmarkGroup"]
BeginningBenchmark(g, i)   == [kind |-> "BeginningBenchmark", group |-> g, bench |-> i]
Warmup(goal)               == [kind |-> "Warmup", warm_up_goal_duration |-> goal]
MeasurementStart(wu_iters, wu_elapsed, num_samples, num_iters) ==
    [kind |-> "MeasurementStart", warm_up_iter_count |-> wu_iters,
     warm_up_duration |-> wu_elapsed, num_samples |-> num_samples,
     num_iters |-> num_iters]
MeasurementComplete(num_iters_per_sample, n) ==
    [kind |-> "MeasurementComplete", num_iters_per_sample |-> num_iters_per_sample,
     num_values |-> n]
End        == [kind |-> "End"]
GetInstant == [kind |-> "GetInstant"]

(* Bounds of the session *)

\* How many groups the `groups` closure opens at most, and how many
\* benchmarks it runs in one group at most.
MaxGroups  == 2
MaxBenches == 2
\* BenchmarkConfig::default().sample_size (50 in the program), scaled.
SampleSize == 2
\* The capacity of ValueBuf (ArrayVec<u64, 128> in the program), scaled.
ValueBufCap == 3
\* The longest time between two readings of the host's clock.
MaxTick == 2
\* The last reading of the host's clock that the model follows.
MaxClock == 12
\* How many downstream messages the free peer writes ahead of the target.
MaxDown == 1

\* The modulus of u64 arithmetic (2^64 in the program), scaled.
U64 == 65536

\* BenchmarkConfig::default(), protocol.rs:148-157, with durations in seconds.
DefaultConfig ==
    [measurement_time |-> 5, nresamples |-> 100000,
     sample_size |-> SampleSize, warm_up_time |-> 3]

Max(a, c) == IF a > c THEN a ELSE c

\* What a routine under test does when it is called: "iter" calls
\* Bencher::iter, in the calls it chooses to; "iter_custom" calls
\* Bencher::iter_custom in every call; "none" calls neither, ever.
RoutineKinds == {"iter", "iter_custom", "none"}

NoBencher == [iterated |-> FALSE, iters |-> 0, elapsed_time |-> 0,
              wants_elapsed_time |-> FALSE]
NoLocals  == [kind |-> "iter", ctx |-> "bench", time_start |-> 0, total_iters |-> 0,
              elapsed_time |-> 0, n |-> 0, si |-> 0, calls |-> 0]
NoEvent   == [op |-> "none", kind |-> "none"]

SessOthers == <<codecVars, bufVars, linkVars, hsVars, smp>>

---------------------------------------------------------------------------
(* The target's side of the link, as messages *)

\* ProxyLink::send: the cursors are zeroed (proxylink.rs:187-189), which
\* drops whatever was read and not yet returned, and the frame is written
\* (to nowhere when the peer is the one that keeps nothing).
TSend(msg) ==
    /\ up' = IF h_pc = "Free" THEN up ELSE Append(up, msg)
    /\ t_rx' = <<>>
    /\ down' = down
    /\ t_ev' = [op |-> "tx", kind |-> msg.kind]
    /\ t_sent' = IF msg.kind = "GetInstant" THEN t_sent ELSE Append(t_sent, msg.kind)

\* ProxyLink::recv returns the oldest message in the buffer; with none
\* there it blocks in io.read, which returns one or more whole messages.
RxReady == t_rx # <<>> \/ down # <<>>
RxMsg   == IF t_rx # <<>> THEN Head(t_rx) ELSE Head(down)
TRecv ==
    /\ RxReady
    /\ IF t_rx # <<>>
       THEN t_rx' = Tail(t_rx) /\ down' = down
       ELSE \E k \in 1..Len(down) :
               /\ t_rx' = SubSeq(down, 2, k)
               /\ down' = SubSeq(down, k + 1, Len(down))
    /\ up' = up
    /\ t_sent' = t_sent
    /\ t_ev' = [op |-> "rx", kind |-> RxMsg.kind]

\* A step of the target that does nothing on the link.
TQuiet == UNCHANGED <<up, down, t_rx, t_sent>>

---------------------------------------------------------------------------
(* bencher::main, bencher/mod.rs:56-84 *)

\* bencher::main taking any first message for the greeting: a faulty variant
T_RecvGreetingAny ==
    /\ t_pc = "AwaitGreeting"
    /\ TRecv
    /\ t_mode' = IF RxMsg.kind = "Greeting" THEN RxMsg.mode ELSE t_mode
    /\ t_pc' = "Groups"
    /\ UNCHANGED <<gi, bi, benchVars, hostVars, SessOthers>>

\* lines 64-69
T_RecvGreeting ==
    /\ t_pc = "AwaitGreeting"
    /\ TRecv
    /\ IF RxMsg.kind = "Greeting"
       THEN t_mode' = RxMsg.mode /\ t_pc' = "Groups"
       ELSE t_mode' = t_mode /\ t_pc' = "Panic"
    /\ UNCHANGED <<gi, bi, benchVars, hostVars, SessOthers>>

\* Criterion::benchmark_group, lines 102-125, called by `groups`
T_BeginGroup ==
    /\ t_pc = "Groups"
    /\ gi < MaxGroups
    /\ TSend(BeginningBenchmarkGroup(gi))
    /\ t_pc' = "InGroup"
    /\ bi' = 0
    /\ UNCHANGED <<t_mode, gi, benchVars, hostVars, SessOthers>>

\* `groups` returns, line 83
T_End ==
    /\ t_pc = "Groups"
    /\ TSend(End)
    /\ t_pc' = "Ended"
    /\ UNCHANGED <<t_mode, gi, bi, benchVars, hostVars, SessOthers>>

---------------------------------------------------------------------------
(* BenchmarkGroup::bench_function_inner, bencher/mod.rs:183-242 *)

\* Mode::Benchmark, lines 208-212
T_BeginBenchmark ==
    /\ t_pc = "InGroup"
    /\ bi < MaxBenches
    /\ t_mode = "Benchmark"
    /\ \E kind \in RoutineKinds : locals' = [NoLocals EXCEPT !.kind = kind]
    /\ TSend(BeginningBenchmark(gi, bi))
    /\ t_pc' = "BenchBegun"
    /\ UNCHANGED <<t_mode, gi, bi, bencher, hostVars, SessOthers>>

\* Mode::Test with a slice of two values for Function::bench: a faulty
\* variant
T_TestBenchmarkTwice ==
    /\ t_pc = "InGroup"
    /\ bi < MaxBenches
    /\ t_mode = "Test"
    /\ \E kind \in RoutineKinds :
          locals' = [NoLocals EXCEPT !.kind = kind, !.ctx = "bench", !.n = 2]
    /\ bencher' = [iterated |-> FALSE, iters |-> 1, elapsed_time |-> 0,
             wants_elapsed_time |-> FALSE]
    /\ t_pc' = "Bench"
    /\ TQuiet
    /\ UNCHANGED <<t_mode, gi, bi, t_ev, hostVars, SessOthers>>

\* Mode::Test, lines 224-227: func.bench(.., 1, &mut [Default::default()]),
\* which makes its Bencher (func.rs:22-29)
T_TestBenchmark ==
    /\ t_pc = "InGroup"
    /\ bi < MaxBenches
    /\ t_mode = "Test"
    /\ \E kind \in RoutineKinds :
          locals' = [NoLocals EXCEPT !.kind = kind, !.ctx = "bench", !.n = 1]
    /\ bencher' = [iterated |-> FALSE, iters |-> 1, elapsed_time |-> 0,
             wants_elapsed_time |-> FALSE]
    /\ t_pc' = "Bench"
    /\ TQuiet
    /\ UNCHANGED <<t_mode, gi, bi, t_ev, hostVars, SessOthers>>

\* Function::sample without the send of lines 85-87: a faulty variant
T_SendWarmupSilent ==
    /\ t_pc = "BenchBegun"
    /\ TQuiet
    /\ bencher' = [iterated |-> FALSE, iters |-> 1, elapsed_time |-> 0,
                   wants_elapsed_time |-> TRUE]
    /\ locals' = [locals EXCEPT !.ctx = "warm", !.total_iters = 0, !.elapsed_time = 0]
    /\ t_pc' = "WarmUp"
    /\ UNCHANGED <<t_mode, gi, bi, t_ev, hostVars, SessOthers>>

\* Function::sample, func.rs:78-88: Warmup is sent and warm_up makes its
\* Bencher (func.rs:46-56)
T_SendWarmup ==
    /\ t_pc = "BenchBegun"
    /\ TSend(Warmup(DefaultConfig.warm_up_time))
    /\ bencher' = [iterated |-> FALSE, iters |-> 1, elapsed_time |-> 0,
             wants_elapsed_time |-> TRUE]
    /\ locals' = [locals EXCEPT !.ctx = "warm", !.total_iters = 0, !.elapsed_time = 0]
    /\ t_pc' = "WarmUp"
    /\ UNCHANGED <<t_mode, gi, bi, hostVars, SessOthers>>

\* the routine is called, func.rs:32 and func.rs:58
T_CallRoutine ==
    /\ \/ t_pc = "WarmUp"
       \/ t_pc = "Bench" /\ locals.si < locals.n
    /\ t_pc' = "Routine"
    /\ locals' = [locals EXCEPT !.calls = @ + 1]
    /\ t_ev' = [op |-> "call", kind |-> locals.ctx]
    /\ TQuiet
    /\ UNCHANGED <<t_mode, gi, bi, bencher, hostVars, SessOthers>>

\* Bencher::iter asking for the time in every call: a faulty variant
UsesNowAlways == TRUE

\* Whether Bencher::iter / iter_custom asks the host for the time
\* (bencher.rs:69 and bencher.rs:122).
UsesNow == locals.kind = "iter_custom" \/ bencher.wants_elapsed_time

\* The routine calls Bencher::iter or iter_custom, which calls
\* Measurement::now (bencher.rs:68-69, 121-122; measurement.rs:31)
T_IterNow ==
    /\ t_pc = "Routine"
    /\ locals.kind # "none"
    /\ UsesNow
    /\ bencher' = [bencher EXCEPT !.iterated = TRUE]
    /\ TSend(GetInstant)
    /\ t_pc' = "Now1"
    /\ UNCHANGED <<t_mode, gi, bi, locals, hostVars, SessOthers>>

\* The routine calls Bencher::iter, which does not ask for the time
\* (bencher.rs:68-69)
T_IterPlain ==
    /\ t_pc = "Routine"
    /\ locals.kind # "none"
    /\ ~UsesNow
    /\ bencher' = [bencher EXCEPT !.iterated = TRUE]
    /\ t_pc' = "Timed"
    /\ t_ev' = [op |-> "iter", kind |-> locals.ctx]
    /\ TQuiet
    /\ UNCHANGED <<t_mode, gi, bi, locals, hostVars, SessOthers>>

\* The routine returns without having called an iter method
T_NoIter ==
    /\ t_pc = "Routine"
    /\ locals.kind \in {"none", "iter"}
    /\ t_pc' = "Returned"
    /\ TQuiet
    /\ UNCHANGED <<t_mode, gi, bi, bencher, locals, t_ev, hostVars, SessOthers>>

\* Measurement::now taking whatever message comes as the time: a faulty
\* variant
T_RecvInstant1Any ==
    /\ t_pc = "Now1"
    /\ TRecv
    /\ locals' = [locals EXCEPT !.time_start =
                     IF RxMsg.kind = "Instant" THEN RxMsg.t ELSE 0]
    /\ t_pc' = "Timed"
    /\ UNCHANGED <<t_mode, gi, bi, bencher, hostVars, SessOthers>>

\* Measurement::now, measurement.rs:33-38, for time_start
T_RecvInstant1 ==
    /\ t_pc = "Now1"
    /\ TRecv
    /\ IF RxMsg.kind = "Instant"
       THEN locals' = [locals EXCEPT !.time_start = RxMsg.t] /\ t_pc' = "Timed"
       ELSE locals' = locals /\ t_pc' = "Panic"
    /\ UNCHANGED <<t_mode, gi, bi, bencher, hostVars, SessOthers>>

\* Bencher::iter reads the counter of the target before the batch
\* (bencher.rs:70; measurement.rs:26-28)
T_ValueStart ==
    /\ t_pc = "Timed"
    /\ locals.kind = "iter"
    /\ t_pc' = "Batch"
    /\ t_ev' = [op |-> "value", kind |-> "start"]
    /\ TQuiet
    /\ UNCHANGED <<t_mode, gi, bi, bencher, locals, hostVars, SessOthers>>

\* The batch, and the counter read again (bencher.rs:71-74); without
\* time_start Bencher::iter returns
T_ValueEnd ==
    /\ t_pc = "Batch"
    /\ t_pc' = IF bencher.wants_elapsed_time THEN "Timed2" ELSE "Returned"
    /\ t_ev' = [op |-> "value", kind |-> "end"]
    /\ TQuiet
    /\ UNCHANGED <<t_mode, gi, bi, bencher, locals, hostVars, SessOthers>>

\* Measurement::now again, after the batch of Bencher::iter or the routine
\* of iter_custom (bencher.rs:75-76, 123-124; measurement.rs:31)
T_TimedBatch ==
    /\ \/ t_pc = "Timed2"
       \/ t_pc = "Timed" /\ locals.kind = "iter_custom"
    /\ TSend(GetInstant)
    /\ t_pc' = "Now2"
    /\ UNCHANGED <<t_mode, gi, bi, bencher, locals, hostVars, SessOthers>>

\* Measurement::now, measurement.rs:33-38, and
\* elapsed_time = now - time_start (bencher.rs:76, 124; time.rs:61-63)
T_RecvInstant2 ==
    /\ t_pc = "Now2"
    /\ TRecv
    /\ IF RxMsg.kind = "Instant"
       THEN /\ bencher' = [bencher EXCEPT !.elapsed_time = (RxMsg.t - locals.time_start) % U64]
            /\ t_pc' = "Returned"
       ELSE bencher' = bencher /\ t_pc' = "Panic"
    /\ UNCHANGED <<t_mode, gi, bi, locals, hostVars, SessOthers>>

\* Bencher::assert_iterated fails, bencher.rs:129-132
T_NotIterated ==
    /\ t_pc = "Returned"
    /\ ~bencher.iterated
    /\ t_pc' = "Panic"
    /\ TQuiet
    /\ UNCHANGED <<t_mode, gi, bi, bencher, locals, t_ev, hostVars, SessOthers>>

\* warm_up after a call, func.rs:60-68: not long enough yet
T_WarmAgain ==
    /\ t_pc = "Returned"
    /\ bencher.iterated
    /\ locals.ctx = "warm"
    /\ ~(locals.elapsed_time + bencher.elapsed_time > DefaultConfig.warm_up_time)
    /\ locals' = [locals EXCEPT !.total_iters = @ + bencher.iters,
                      !.elapsed_time = @ + bencher.elapsed_time]
    /\ bencher' = [bencher EXCEPT !.iterated = FALSE, !.iters = (@ * 2) % U64]
    /\ t_pc' = "WarmUp"
    /\ TQuiet
    /\ UNCHANGED <<t_mode, gi, bi, t_ev, hostVars, SessOthers>>

\* The sample count of Function::sample, func.rs:80
NumSamples(config) == Max(Min(config.sample_size, ValueBufCap), 1)

\* The iteration budget of Function::sample, func.rs:96-97, in u128
Budget(config, wu_iters) ==
    (wu_iters * config.measurement_time) \div config.warm_up_time

\* The iteration count per sample of Function::sample, func.rs:98: the
\* quotient in u128, at least 1, cut to 64 bits by `as u64`
NumItersPerSample(config, wu_iters) ==
    Max(Budget(config, wu_iters) \div config.sample_size, 1) % U64

\* warm_up returns (func.rs:64-66) and sample goes on to MeasurementStart
\* and Function::bench (func.rs:96-128, func.rs:22-29)
T_WarmDone ==
    /\ t_pc = "Returned"
    /\ bencher.iterated
    /\ locals.ctx = "warm"
    /\ locals.elapsed_time + bencher.elapsed_time > DefaultConfig.warm_up_time
    /\ LET total_iters == locals.total_iters + bencher.iters
           elapsed     == locals.elapsed_time + bencher.elapsed_time
           num_samples == NumSamples(DefaultConfig)
           per_sample  == NumItersPerSample(DefaultConfig, total_iters)
       IN  IF per_sample * num_samples >= U64
           THEN /\ t_pc' = "Panic"
                /\ TQuiet
                /\ UNCHANGED <<bencher, locals, t_ev>>
           ELSE /\ TSend(MeasurementStart(total_iters, elapsed, num_samples,
                                          per_sample * num_samples))
                /\ locals' = [locals EXCEPT !.total_iters = total_iters, !.elapsed_time = elapsed,
                                  !.ctx = "bench", !.n = num_samples, !.si = 0]
                /\ bencher' = [iterated |-> FALSE, iters |-> per_sample, elapsed_time |-> 0,
                         wants_elapsed_time |-> FALSE]
                /\ t_pc' = "Bench"
    /\ UNCHANGED <<t_mode, gi, bi, hostVars, SessOthers>>

\* Function::bench after a call, with an assert_iterated that leaves
\* `iterated` as it is: a faulty variant
T_BenchAgainSticky ==
    /\ t_pc = "Returned"
    /\ bencher.iterated
    /\ locals.ctx = "bench"
    /\ locals' = [locals EXCEPT !.si = @ + 1]
    /\ t_pc' = "Bench"
    /\ TQuiet
    /\ UNCHANGED <<t_mode, gi, bi, bencher, t_ev, hostVars, SessOthers>>

\* Function::bench after a call, func.rs:33-34
T_BenchAgain ==
    /\ t_pc = "Returned"
    /\ bencher.iterated
    /\ locals.ctx = "bench"
    /\ bencher' = [bencher EXCEPT !.iterated = FALSE]
    /\ locals' = [locals EXCEPT !.si = @ + 1]
    /\ t_pc' = "Bench"
    /\ TQuiet
    /\ UNCHANGED <<t_mode, gi, bi, t_ev, hostVars, SessOthers>>

\* Function::bench returns to analysis::common, which sends
\* MeasurementComplete (analysis.rs:14-20)
T_MeasurementComplete ==
    /\ t_pc = "Bench"
    /\ locals.si = locals.n
    /\ t_mode = "Benchmark"
    /\ TSend(MeasurementComplete(bencher.iters, locals.n))
    /\ t_pc' = "BenchWait"
    /\ UNCHANGED <<t_mode, gi, bi, bencher, locals, hostVars, SessOthers>>

\* Function::bench returns to bench_function_inner in Mode::Test
\* (mod.rs:227-230)
T_TestDone ==
    /\ t_pc = "Bench"
    /\ locals.si = locals.n
    /\ t_mode = "Test"
    /\ t_pc' = "BenchWait"
    /\ TQuiet
    /\ UNCHANGED <<t_mode, gi, bi, bencher, locals, t_ev, hostVars, SessOthers>>

\* "Wait for a `Continue` message", mod.rs:232-241; on return the Function
\* and its Bencher are gone
T_BenchContinue ==
    /\ t_pc = "BenchWait"
    /\ TRecv
    /\ IF RxMsg.kind = "Continue"
       THEN /\ bi' = bi + 1
            /\ t_pc' = "InGroup"
            /\ bencher' = NoBencher
            /\ locals' = NoLocals
       ELSE /\ t_pc' = "Panic"
            /\ UNCHANGED <<bi, bencher, locals>>
    /\ UNCHANGED <<t_mode, gi, hostVars, SessOthers>>

\* Drop for BenchmarkGroup without the recv of lines 257-264: a faulty variant
T_FinishGroupNoWait ==
    /\ t_pc = "InGroup"
    /\ TSend(FinishedBenchmarkGroup)
    /\ gi' = gi + 1
    /\ t_pc' = "Groups"
    /\ UNCHANGED <<t_mode, bi, bencher, locals, hostVars, SessOthers>>

\* Drop for BenchmarkGroup, mod.rs:251-255
T_FinishGroup ==
    /\ t_pc = "InGroup"
    /\ TSend(FinishedBenchmarkGroup)
    /\ t_pc' = "GroupWait"
    /\ UNCHANGED <<t_mode, gi, bi, bencher, locals, hostVars, SessOthers>>

\* Drop for BenchmarkGroup, mod.rs:257-264
T_GroupContinue ==
    /\ t_pc = "GroupWait"
    /\ TRecv
    /\ IF RxMsg.kind = "Continue"
       THEN gi' = gi + 1 /\ t_pc' = "Groups"
       ELSE gi' = gi /\ t_pc' = "Panic"
    /\ UNCHANGED <<t_mode, bi, bencher, locals, hostVars, SessOthers>>

\* The `groups` closure leaks the group it opened (core::mem::forget, or a
\* Box that is never freed): Drop for BenchmarkGroup never runs, and the
\* borrow of the Criterion ends (mod.rs:102-125, 251-265).
T_LeakGroup ==
    /\ t_pc = "InGroup"
    /\ gi' = gi + 1
    /\ t_pc' = "Groups"
    /\ TQuiet
    /\ UNCHANGED <<t_mode, bi, bencher, locals, t_ev, hostVars, SessOthers>>

EngineNext ==
    \/ T_RecvGreeting \/ T_BeginGroup \/ T_End
    \/ T_BeginBenchmark \/ T_TestBenchmark \/ T_SendWarmup
    \/ T_CallRoutine \/ T_IterNow \/ T_IterPlain \/ T_NoIter
    \/ T_RecvInstant1 \/ T_ValueStart \/ T_ValueEnd \/ T_TimedBatch
    \/ T_RecvInstant2
    \/ T_NotIterated \/ T_WarmAgain \/ T_WarmDone \/ T_BenchAgain
    \/ T_MeasurementComplete \/ T_TestDone \/ T_BenchContinue
    \/ T_FinishGroup \/ T_GroupContinue \/ T_LeakGroup

---------------------------------------------------------------------------
(* The host: proxy/mod.rs, proxy/dumbfront.rs, proxy/ccfront.rs *)

NoReply == [msg |-> "none", reply |-> "none"]

\* Option: None, Some(x)
None    == <<>>
Some(x) == <<x>>

\* proxy/mod.rs:204-217: the greeting.  The proxy has returned at line 103
\* unless opts.bench, so the mode is Benchmark.
H_SendGreeting ==
    /\ h_pc = "Start"
    /\ down' = Append(down, Greeting("Benchmark"))
    /\ h_pc' = "Loop"
    /\ UNCHANGED <<up, t_rx, engVars, h_frontend, h_clock, current_group,
                   current_benchmark, h_last, SessOthers>>

\* origin.elapsed() (dumbfront.rs:21, ccfront.rs:33): later than at the
\* reading before, by the time a round trip on the link takes at least.
\* Past MaxClock the model follows the host no further.
ClockAfter == {h_clock + d : d \in 1..MaxTick} \cap 0..MaxClock

\* dumbfront sending Continue after each Instant: a faulty variant
H_DumbContinueToo ==
    /\ h_pc = "Loop"
    /\ h_frontend = "dumb"
    /\ up # <<>>
    /\ up' = Tail(up)
    /\ LET msg == Head(up)
       IN  IF msg.kind = "GetInstant"
           THEN /\ \E now \in ClockAfter :
                      /\ h_clock' = now
                      /\ down' = down \o <<Instant(now), Continue>>
                /\ UNCHANGED <<h_pc, h_last>>
           ELSE /\ h_clock' = h_clock
                /\ IF msg.kind = "MeasurementComplete"
                   THEN /\ down' = Append(down, Continue)
                        /\ h_last' = [msg |-> msg.kind, reply |-> "Continue"]
                   ELSE /\ down' = down
                        /\ h_last' = [msg |-> msg.kind, reply |-> "none"]
                /\ h_pc' = IF msg.kind = "End" THEN "Done" ELSE "Loop"
    /\ UNCHANGED <<t_rx, engVars, h_frontend, current_group, current_benchmark,
                   SessOthers>>

\* One turn of the loop of dumbfront::run_frontend, dumbfront.rs:15-40
H_Dumb ==
    /\ h_pc = "Loop"
    /\ h_frontend = "dumb"
    /\ up # <<>>
    /\ up' = Tail(up)
    /\ LET msg == Head(up)
       IN  IF msg.kind = "GetInstant"
           THEN /\ \E now \in ClockAfter :
                      /\ h_clock' = now
                      /\ down' = Append(down, Instant(now))
                /\ UNCHANGED <<h_pc, h_last>>
           ELSE /\ h_clock' = h_clock
                /\ IF msg.kind = "MeasurementComplete"
                   THEN /\ down' = Append(down, Continue)
                        /\ h_last' = [msg |-> msg.kind, reply |-> "Continue"]
                   ELSE /\ down' = down
                        /\ h_last' = [msg |-> msg.kind, reply |-> "none"]
                /\ h_pc' = IF msg.kind = "End" THEN "Done" ELSE "Loop"
    /\ UNCHANGED <<t_rx, engVars, h_frontend, current_group, current_benchmark,
                   SessOthers>>

\* One turn of the loop of ccfront::run_frontend, ccfront.rs:26-137, with a
\* cargo-criterion that takes every message and answers every request.
H_Cc ==
    /\ h_pc = "Loop"
    /\ h_frontend = "cc"
    /\ up # <<>>
    /\ up' = Tail(up)
    /\ LET msg     == Head(up)
           k       == msg.kind
           noGroup == current_group = None
           noBench == current_benchmark = None
           failed  == \/ k = "BeginningBenchmarkGroup" /\ ~noGroup
                      \/ k = "FinishedBenchmarkGroup" /\ noGroup
                      \/ k = "BeginningBenchmark" /\ ~noBench
                      \/ k \in {"Warmup", "MeasurementStart", "MeasurementComplete"}
                            /\ noBench
       IN  IF k = "GetInstant"
           THEN /\ \E now \in ClockAfter :
                      /\ h_clock' = now
                      /\ down' = Append(down, Instant(now))
                /\ UNCHANGED <<h_pc, h_last, current_group, current_benchmark>>
           ELSE /\ h_clock' = h_clock
                /\ IF failed
                   THEN /\ h_pc' = "Failed"
                        /\ down' = down
                        /\ h_last' = [msg |-> k, reply |-> "none"]
                        /\ UNCHANGED <<current_group, current_benchmark>>
                   ELSE /\ h_pc' = IF k = "End" THEN "Done" ELSE "Loop"
                        /\ current_group' =
                              CASE k = "BeginningBenchmarkGroup" -> Some(msg.group)
                                [] k = "FinishedBenchmarkGroup" -> None
                                [] OTHER -> current_group
                        /\ current_benchmark' =
                              CASE k = "BeginningBenchmark" -> Some(<<msg.group, msg.bench>>)
                                [] k = "MeasurementComplete" -> None
                                [] OTHER -> current_benchmark
                        /\ IF k \in {"FinishedBenchmarkGroup", "MeasurementComplete"}
                           THEN /\ down' = Append(down, Continue)
                                /\ h_last' = [msg |-> k, reply |-> "Continue"]
                           ELSE /\ down' = down
                                /\ h_last' = [msg |-> k, reply |-> "none"]
    /\ UNCHANGED <<t_rx, engVars, h_frontend, SessOthers>>

(* A peer that is not one of the two front-ends: it keeps nothing of what
   the target sends and writes whatever downstream message it likes, up to
   MaxDown messages ahead of the target (bencher/protocol.rs:12-31). *)

P_Write ==
    /\ h_pc = "Free"
    /\ Len(down) + Len(t_rx) < MaxDown
    /\ \E msg \in {Greeting("Benchmark"), Greeting("Test"), Continue}
                  \cup {Instant(now) : now \in ClockAfter} :
          /\ down' = Append(down, msg)
          /\ h_clock' = IF msg.kind = "Instant" THEN msg.t ELSE h_clock
    /\ UNCHANGED <<up, t_rx, engVars, h_frontend, h_pc, current_group,
                   current_benchmark, h_last, SessOthers>>

HostNext == H_SendGreeting \/ H_Dumb \/ H_Cc \/ P_Write

\* The session before its first message: the handshake is over, the target
\* is in bencher::main at the first recv, the host is about to greet.
SessionInit ==
    /\ up = <<>> /\ down = <<>> /\ t_rx = <<>>
    /\ t_pc = "AwaitGreeting"
    /\ t_mode = "Benchmark"
    /\ gi = 0 /\ bi = 0
    /\ bencher = NoBencher
    /\ locals = NoLocals
    /\ t_ev = NoEvent
    /\ t_sent = <<>>
    /\ h_frontend \in {"dumb", "cc", "free"}
    /\ h_pc = IF h_frontend = "free" THEN "Free" ELSE "Start"
    /\ h_clock = 0
    /\ current_group = None
    /\ current_benchmark = None
    /\ h_last = NoReply

\* No session: the state of the variables above in the specifications of
\* the link alone.
SessIdle ==
    /\ up = <<>> /\ down = <<>> /\ t_rx = <<>>
    /\ t_pc = "off"
    /\ t_mode = "Benchmark"
    /\ gi = 0 /\ bi = 0
    /\ bencher = NoBencher
    /\ locals = NoLocals
    /\ t_ev = NoEvent
    /\ t_sent = <<>>
    /\ h_frontend = "dumb"
    /\ h_pc = "off"
    /\ h_clock = 0
    /\ current_group = None
    /\ current_benchmark = None
    /\ h_last = NoReply

Next == EngineNext \/ HostNext

---------------------------------------------------------------------------
(* The handshake: bencher/protocol.rs:7-10, proxy/targetlink.rs:21-175,
   bencher/proxylink.rs:26-106 *)

\* b"\x01fluttershyyay"
HANDSHAKE_MAGIC ==
    <<1, 102, 108, 117, 116, 116, 101, 114, 115, 104, 121, 121, 97, 121>>
\* b"\x02applejack"
HANDSHAKE_END_MAGIC == <<2, 97, 112, 112, 108, 101, 106, 97, 99, 107>>

\* HANDSHAKE_NONCE_LEN (16 in the program), scaled.
NonceLen == 1
\* How many sync packets the initiator writes at most before the echo.
MaxSync == 3
\* How many pieces an inbound stream of any content is made of at most.
MaxPieces == 2
\* The length of the cut sync marker among these pieces.
InboundCut == 5
\* The length of the first write of a sync packet that takes two.
WriteCut == 5
\* The length of the marker in the patterns of SpecSkip, and of its streams
\* at most.
MarkerLen == 2
MaxSkipStream == 6

\* The bytes rand::thread_rng().gen() may give the nonce.
RawNonceBytes == {1, 2, 7}

\* The nonce as drawn: a faulty variant
FixNonceNever(raw) == raw

\* targetlink.rs:34-41
FixNonce(raw) ==
    [i \in DOMAIN raw |->
        IF raw[i] = HANDSHAKE_MAGIC[1] \/ raw[i] = HANDSHAKE_END_MAGIC[1]
        THEN 255 ELSE raw[i]]

\* targetlink.rs:42-43
HandshakePacket(nonce) == HANDSHAKE_MAGIC \o nonce

\* The CBOR encodings of the Greeting the model sends.
GreetingPayloads == {<<65, 66>>, <<65, 192>>}

\* slip::write_frame of the host: the payload with its end and escape bytes
\* replaced by escape pairs, then one end byte.
RECURSIVE write_frame(_)
write_frame(payload) ==
    IF payload = <<>> THEN <<SLIP_FRAME_END>>
    ELSE (CASE Head(payload) = SLIP_FRAME_END -> <<SLIP_FRAME_ESC, SLIP_FRAME_ESC_END>>
            [] Head(payload) = SLIP_FRAME_ESC -> <<SLIP_FRAME_ESC, SLIP_FRAME_ESC_ESC>>
            [] OTHER -> <<Head(payload)>>) \o write_frame(Tail(payload))

Drop(q, n) == SubSeq(q, n + 1, Len(q))
Take(q, n) == SubSeq(q, 1, n)

\* utils/futures.rs:126-130: the index (from 0) of the first occurrence,
\* or -1
slice_find(haystack, needle) ==
    LET at == {i \in 0..(Len(haystack) - Len(needle)) :
                  SubSeq(haystack, i + 1, i + Len(needle)) = needle}
    IN  IF at = {} THEN -1 ELSE CHOOSE i \in at : \A j \in at : i <= j

\* The variables the handshake leaves alone.
HsOthers == <<codecVars, sessVars, l_stream, l_taken, smp>>

---------------------------------------------------------------------------
(* TargetLink::new, the initiator *)

\* Stage 1, process 2 (targetlink.rs:59-85): a handshake packet is written,
\* one more every 200 ms until process 1 has found the echo.  write_all
\* takes one write or two (`wpos` bytes are out after the first); process 2
\* is not dropped when process 1 is over but told to stop and awaited
\* (lines 105-108), so a write in progress is finished in any case.
I_SendSync ==
    /\ \/ ini.pc = "stage1" /\ ini.wpos = 0 /\ ini.sent < MaxSync
       \/ ini.pc \in {"stage1", "stage2"} /\ ini.wpos > 0
    /\ LET packet == HandshakePacket(ini.nonce)
       IN  \E n \in (IF ini.wpos = 0 THEN {WriteCut, Len(packet)}
                                     ELSE {Len(packet) - ini.wpos}) :
              LET part == SubSeq(packet, ini.wpos + 1, ini.wpos + n)
                  whole == ini.wpos + n = Len(packet)
              IN  /\ wire_down' = wire_down \o part
                  /\ ini' = [ini EXCEPT !.sent = IF whole THEN @ + 1 ELSE @,
                                        !.wpos = IF whole THEN 0 ELSE @ + n,
                                        !.outb = @ \o part]
    /\ UNCHANGED <<wire_up, rsp, bufVars, l_pc, l_delivered, HsOthers>>

\* Stage 1, process 1: one step of async_buf_read_skip_until_pattern
\* (utils/futures.rs:35-123) on the bytes the BufReader holds: read_exact
\* into the first half of `overlap` (lines 47-57) until it is full, then one
\* turn of the loop per fill (lines 59-122).  Found, process 2 is stopped
\* and stage 2 begins (targetlink.rs:89-117).
SkipUntilPattern(st) ==
    LET pattern == st.pattern
        p       == Len(pattern) - 1
        bufr    == st.rbuf
    IN  IF st.got < p
        THEN LET m == Min(Len(bufr), p - st.got)
             IN  [st EXCEPT
                    !.overlap = [i \in 1..(2 * p) |->
                                   IF i > st.got /\ i <= st.got + m
                                   THEN bufr[i - st.got] ELSE @[i]],
                    !.got = @ + m,
                    !.rbuf = Drop(bufr, m)]
        ELSE LET copied == Min(Len(bufr), p)
                 ov     == [i \in 1..(2 * p) |->
                              IF i > p /\ i <= p + copied
                              THEN bufr[i - p] ELSE st.overlap[i]]
                 i1     == slice_find(Take(ov, p + copied), pattern)
                 i2     == slice_find(bufr, pattern)
             IN  IF i1 >= 0
                 THEN [st EXCEPT !.overlap = ov, !.rbuf = Drop(bufr, i1 + 1),
                                 !.pc = "stage2"]
                 ELSE IF i2 >= 0
                 THEN [st EXCEPT !.overlap = ov,
                                 !.rbuf = Drop(bufr, i2 + Len(pattern)),
                                 !.pc = "stage2"]
                 ELSE [st EXCEPT
                         !.overlap =
                            IF Len(bufr) <= p
                            THEN [i \in 1..(2 * p) |->
                                    IF i <= p THEN ov[p + i] ELSE ov[i]]
                            ELSE [i \in 1..(2 * p) |->
                                    IF i <= p THEN bufr[Len(bufr) - p + i]
                                    ELSE ov[i]],
                         !.rbuf = <<>>]

\* Stage 2, process 1 (targetlink.rs:118-155) on the bytes the BufReader
\* holds: the first byte of a packet tells its length, the rest is read
\* and not looked at; the end packet ends the process.
RECURSIVE DropPackets(_, _)
DropPackets(st, packet_len) ==
    IF st.rbuf = <<>> \/ st.p1done \/ st.pc = "failed" THEN st
    ELSE IF st.need = 0
    THEN LET b0 == Head(st.rbuf)
         IN  IF b0 = HANDSHAKE_MAGIC[1]
             THEN DropPackets([st EXCEPT !.rbuf = Tail(@), !.need = packet_len - 1,
                                         !.kind = "sync"], packet_len)
             ELSE IF b0 = HANDSHAKE_END_MAGIC[1]
             THEN DropPackets([st EXCEPT !.rbuf = Tail(@),
                                         !.need = Len(HANDSHAKE_END_MAGIC) - 1,
                                         !.kind = "end"], packet_len)
             ELSE [st EXCEPT !.rbuf = Tail(@), !.pc = "failed"]
    ELSE LET m == Min(Len(st.rbuf), st.need)
         IN  DropPackets([st EXCEPT !.rbuf = Drop(@, m), !.need = @ - m,
                                    !.p1done = (st.need = m /\ st.kind = "end")],
                         packet_len)

\* The reading processes of both stages on the bytes the BufReader holds,
\* until they need more or are over.
RECURSIVE ReadOn(_)
ReadOn(st) ==
    IF st.rbuf = <<>> \/ st.p1done \/ st.pc \notin {"stage1", "stage2"} THEN st
    ELSE IF st.pc = "stage1" THEN ReadOn(SkipUntilPattern(st))
    ELSE DropPackets(st, Len(HandshakePacket(st.nonce)))

\* The BufReader is empty and reads what the stream has, or a part of it
\* (targetlink.rs:23), and the reading process goes on over it.
I_Read ==
    /\ ini.pc \in {"stage1", "stage2"}
    /\ ~ini.p1done
    /\ \E n \in 1..Len(wire_up) :
          /\ ini' = ReadOn([ini EXCEPT !.rbuf = Take(wire_up, n)])
          /\ wire_up' = Drop(wire_up, n)
    /\ UNCHANGED <<wire_down, rsp, bufVars, l_pc, l_delivered, HsOthers>>

\* Stage 2 with process 2 begun when process 1 is over: a faulty variant
I_SendEndAfterDrain ==
    /\ ini.pc = "stage2"
    /\ ini.wpos = 0
    /\ ini.p1done
    /\ ~ini.end_sent
    /\ wire_down' = wire_down \o HANDSHAKE_END_MAGIC
    /\ ini' = [ini EXCEPT !.end_sent = TRUE, !.ends = @ + 1,
                          !.outb = @ \o HANDSHAKE_END_MAGIC]
    /\ UNCHANGED <<wire_up, rsp, bufVars, l_pc, l_delivered, HsOthers>>

\* Stage 2 begun with process 2 of stage 1 dropped in the middle of a
\* write: a faulty variant
I_SendEndAbrupt ==
    /\ ini.pc = "stage2"
    /\ ~ini.end_sent
    /\ wire_down' = wire_down \o HANDSHAKE_END_MAGIC
    /\ ini' = [ini EXCEPT !.end_sent = TRUE, !.ends = @ + 1, !.wpos = 0,
                          !.outb = @ \o HANDSHAKE_END_MAGIC]
    /\ UNCHANGED <<wire_up, rsp, bufVars, l_pc, l_delivered, HsOthers>>

\* Stage 2, process 2 (targetlink.rs:156-169): the end packet, once, when
\* process 2 of stage 1 has returned (line 108)
I_SendEnd ==
    /\ ini.pc = "stage2"
    /\ ini.wpos = 0
    /\ ~ini.end_sent
    /\ wire_down' = wire_down \o HANDSHAKE_END_MAGIC
    /\ ini' = [ini EXCEPT !.end_sent = TRUE, !.ends = @ + 1,
                          !.outb = @ \o HANDSHAKE_END_MAGIC]
    /\ UNCHANGED <<wire_up, rsp, bufVars, l_pc, l_delivered, HsOthers>>

\* The end of stage 2 with one more end packet written: a faulty variant
I_DoneEndAgain ==
    /\ ini.pc = "stage2"
    /\ ini.p1done
    /\ ini.end_sent
    /\ wire_down' = wire_down \o HANDSHAKE_END_MAGIC
    /\ ini' = [ini EXCEPT !.pc = "done", !.ends = @ + 1,
                          !.outb = @ \o HANDSHAKE_END_MAGIC]
    /\ UNCHANGED <<wire_up, rsp, bufVars, l_pc, l_delivered, HsOthers>>

\* Both processes of stage 2 are over (targetlink.rs:170-174)
I_Done ==
    /\ ini.pc = "stage2"
    /\ ini.p1done
    /\ ini.end_sent
    /\ ini' = [ini EXCEPT !.pc = "done"]
    /\ UNCHANGED <<wire_down, wire_up, rsp, bufVars, l_pc, l_delivered, HsOthers>>

\* The greeting, proxy/mod.rs:209-217 and TargetLink::send
\* (targetlink.rs:187-193)
I_SendGreeting ==
    /\ ini.pc = "done"
    /\ \E payload \in GreetingPayloads :
          /\ wire_down' = wire_down \o write_frame(payload)
          /\ ini' = [ini EXCEPT !.pc = "greeted", !.greeting = payload,
                                !.outb = @ \o write_frame(payload)]
    /\ UNCHANGED <<wire_up, rsp, bufVars, l_pc, l_delivered, HsOthers>>

---------------------------------------------------------------------------
(* ProxyLink::new, the responder *)

\* ProxyLink::new replying to the first sync packet alone: a faulty variant
RespondOnce(r, b) ==
    CASE r.st = "scan" ->
           IF b = HANDSHAKE_MAGIC[1] THEN [r EXCEPT !.st = "magic", !.i = 1]
           ELSE IF r.got_handshape
           THEN IF b # HANDSHAKE_END_MAGIC[1] THEN [r EXCEPT !.pc = "panic"]
                ELSE [r EXCEPT !.st = "end", !.i = 1]
           ELSE r
      [] r.st = "magic" ->
           IF b # HANDSHAKE_MAGIC[r.i + 1] THEN [r EXCEPT !.st = "scan"]
           ELSE IF r.i + 1 = Len(HANDSHAKE_MAGIC)
           THEN [r EXCEPT !.st = "nonce", !.nonce = <<>>]
           ELSE [r EXCEPT !.i = @ + 1]
      [] r.st = "nonce" ->
           IF Len(r.nonce) + 1 = NonceLen
           THEN IF r.got_handshape
                THEN [r EXCEPT !.nonce = Append(@, b), !.st = "scan"]
                ELSE [r EXCEPT !.nonce = Append(@, b), !.st = "scan",
                               !.out = @ \o HANDSHAKE_MAGIC \o Append(r.nonce, b),
                               !.written = Append(@, HANDSHAKE_MAGIC \o Append(r.nonce, b)),
                               !.got_handshape = TRUE]
           ELSE [r EXCEPT !.nonce = Append(@, b)]
      [] r.st = "end" ->
           IF b # HANDSHAKE_END_MAGIC[r.i + 1] THEN [r EXCEPT !.pc = "panic"]
           ELSE IF r.i + 1 = Len(HANDSHAKE_END_MAGIC)
           THEN [r EXCEPT !.out = @ \o HANDSHAKE_END_MAGIC,
                          !.written = Append(@, HANDSHAKE_END_MAGIC),
                          !.pc = "done"]
           ELSE [r EXCEPT !.i = @ + 1]

\* What ProxyLink::new does with the byte `b` that `next` returns
\* (proxylink.rs:47-97); `out` collects what it writes,
\* `written` the packets it has written since it began.
Respond(r, b) ==
    CASE r.st = "scan" ->
           IF b = HANDSHAKE_MAGIC[1] THEN [r EXCEPT !.st = "magic", !.i = 1]
           ELSE IF r.got_handshape
           THEN IF b # HANDSHAKE_END_MAGIC[1] THEN [r EXCEPT !.pc = "panic"]
                ELSE [r EXCEPT !.st = "end", !.i = 1]
           ELSE r
      [] r.st = "magic" ->
           IF b # HANDSHAKE_MAGIC[r.i + 1] THEN [r EXCEPT !.st = "scan"]
           ELSE IF r.i + 1 = Len(HANDSHAKE_MAGIC)
           THEN [r EXCEPT !.st = "nonce", !.nonce = <<>>]
           ELSE [r EXCEPT !.i = @ + 1]
      [] r.st = "nonce" ->
           IF Len(r.nonce) + 1 = NonceLen
           THEN [r EXCEPT !.nonce = Append(@, b), !.st = "scan",
                          !.out = @ \o HANDSHAKE_MAGIC \o Append(r.nonce, b),
                          !.written = Append(@, HANDSHAKE_MAGIC \o Append(r.nonce, b)),
                          !.got_handshape = TRUE]
           ELSE [r EXCEPT !.nonce = Append(@, b)]
      [] r.st = "end" ->
           IF b # HANDSHAKE_END_MAGIC[r.i + 1] THEN [r EXCEPT !.pc = "panic"]
           ELSE IF r.i + 1 = Len(HANDSHAKE_END_MAGIC)
           THEN [r EXCEPT !.out = @ \o HANDSHAKE_END_MAGIC,
                          !.written = Append(@, HANDSHAKE_END_MAGIC),
                          !.pc = "done"]
           ELSE [r EXCEPT !.i = @ + 1]

\* ProxyLink::new on the bytes read[pos + 1 ..] of one io.read; what it has
\* not looked at when it returns is dropped with the cursors (lines 99-105).
RECURSIVE RespondAll(_, _, _)
RespondAll(r, read, pos) ==
    IF r.pc # "handshake" THEN [r EXCEPT !.dropped = Len(read) - pos]
    ELSE IF pos = Len(read) THEN r
    ELSE RespondAll(Respond(r, read[pos + 1]), read, pos + 1)

\* `next` finds pos = len and calls io.read(buf), which returns some of
\* the bytes that have arrived (proxylink.rs:29-39); the handshake goes on
\* over them.  What the read leaves in `buf` is not kept: recv looks at
\* buf[..buf_len) alone, which it has filled itself.
R_Handshake ==
    /\ rsp.pc = "handshake"
    /\ \E n \in 1..Min(LinkBufLen, Len(wire_down)) :
          LET r == RespondAll([rsp EXCEPT !.out = <<>>], Take(wire_down, n), 0)
          IN  /\ rsp' = [r EXCEPT !.out = <<>>]
              /\ wire_down' = Drop(wire_down, n)
              /\ wire_up' = wire_up \o r.out
              /\ l_pc' = IF r.pc = "done" THEN "recv" ELSE l_pc
    /\ UNCHANGED <<ini, bufVars, l_delivered, HsOthers>>

\* The first ProxyLink::recv of bencher::main (mod.rs:64): the turns of its
\* loop, as in SpecLink, with io.read on the bytes that have arrived.
R_RecvFrame == l_delivered = <<>> /\ LinkRecvFrame

R_RecvFull == l_delivered = <<>> /\ LinkRecvFull

R_RecvRead ==
    /\ l_pc = "recv"
    /\ l_delivered = <<>>
    /\ FindEnd(buf, buf_scan, buf_len) < 0
    /\ LinkBufLen - buf_len > 1
    /\ \E n \in 1..Min(LinkBufLen - buf_len, Len(wire_down)) :
          /\ buf' = [i \in DOMAIN buf |->
                       IF i >= buf_len /\ i < buf_len + n
                       THEN wire_down[(i - buf_len) + 1] ELSE buf[i]]
          /\ buf_scan' = buf_len
          /\ buf_len' = buf_len + n
          /\ wire_down' = Drop(wire_down, n)
    /\ UNCHANGED <<buf_pos, l_pc, l_delivered, wire_up, ini, rsp, HsOthers>>

HsNext ==
    \/ I_SendSync \/ I_Read \/ I_SendEnd \/ I_Done \/ I_SendGreeting
    \/ R_Handshake \/ R_RecvFrame \/ R_RecvFull \/ R_RecvRead

NoInitiator ==
    [pc |-> "off", nonce |-> <<>>, sent |-> 0, end_sent |-> FALSE, rbuf |-> <<>>,
     overlap |-> <<>>, got |-> 0, need |-> 0, kind |-> "sync", p1done |-> FALSE,
     pattern |-> <<>>, ends |-> 0, wpos |-> 0, outb |-> <<>>,
     greeting |-> <<>>]
NoResponder ==
    [pc |-> "off", st |-> "scan", i |-> 0, nonce |-> <<>>, got_handshape |-> FALSE,
     out |-> <<>>, written |-> <<>>, dropped |-> 0, lost |-> 0]

\* Both peers are at the start of their `new`, in either order: nothing is
\* on the wire yet.
HsInit ==
    /\ wire_down = <<>>
    /\ wire_up = <<>>
    /\ \E raw \in [1..NonceLen -> RawNonceBytes] :
          ini = [NoInitiator EXCEPT
                   !.pc = "stage1",
                   !.nonce = FixNonce(raw),
                   !.pattern = HandshakePacket(FixNonce(raw)),
                   !.overlap = [i \in 1..(2 * (Len(HANDSHAKE_MAGIC) + NonceLen - 1)) |-> 0]]
    /\ rsp = [NoResponder EXCEPT !.pc = "handshake"]
    /\ BufIdle
    /\ l_pc = "off"
    /\ l_stream = <<>>
    /\ l_taken = 0
    /\ l_delivered = <<>>

\* The responder begins late (proxylink.rs:24-39: `next` reads what the
\* transport holds from the time the port is opened): the first `k` bytes
\* the initiator wrote, up to any offset in its sync packets, are gone.
R_StartLate ==
    /\ rsp.pc = "handshake"
    /\ rsp.st = "scan"
    /\ ~rsp.got_handshape
    /\ rsp.lost = 0
    /\ ini.pc = "stage1"
    /\ \E k \in 1..Len(wire_down) :
          /\ wire_down' = Drop(wire_down, k)
          /\ rsp' = [rsp EXCEPT !.lost = k]
    /\ UNCHANGED <<wire_up, ini, bufVars, l_pc, l_delivered, HsOthers>>

\* Stage 1 as the responder sees it when it may begin late: the initiator
\* writes its sync packets, the responder reads from some offset in them.
\* What the initiator does with the echoes is no input of the responder.
LateNext == I_SendSync \/ R_Handshake \/ R_StartLate

\* The inbound stream of the initiator has ended.  In stage 1
\* async_buf_read_skip_until_pattern returns false (utils/futures.rs:52,
\* 67-70) and the attempt fails with "Unexpected EOF encountered while
\* waiting for a handshake response" (targetlink.rs:53-55); in stage 2
\* read_exact fails (targetlink.rs:126-129, 137-147).
I_Eof ==
    /\ ini.pc \in {"stage1", "stage2"}
    /\ ~ini.p1done
    /\ wire_up = <<>>
    /\ ini' = [ini EXCEPT !.pc = IF ini.pc = "stage1" THEN "eof1" ELSE "failed"]
    /\ UNCHANGED <<wire_down, wire_up, rsp, bufVars, l_pc, l_delivered, HsOthers>>

\* What the inbound stream of the initiator may be made of: echoes of its
\* own sync packet, echoes with another nonce, end packets, an end packet
\* with a wrong last byte, the start of a sync packet, single bytes.
InboundPieces(nonce) ==
    {HandshakePacket(nonce),
     HandshakePacket([i \in DOMAIN nonce |-> 9]),
     HANDSHAKE_END_MAGIC,
     Take(HANDSHAKE_END_MAGIC, Len(HANDSHAKE_END_MAGIC) - 1) \o <<65>>,
     Take(HANDSHAKE_MAGIC, InboundCut),
     nonce,
     <<65>>}

RECURSIVE InboundStreamsOf(_, _)
InboundStreamsOf(pieces, n) ==
    IF n = 0 THEN {<<>>}
    ELSE LET shorter == InboundStreamsOf(pieces, n - 1)
         IN  shorter \cup {q \o piece : q \in shorter, piece \in pieces}

\* TargetLink::new on an inbound stream of any content, cut into reads in
\* any way: `l_stream` is here the whole inbound stream of the initiator,
\* `wire_up` what it has not read yet.
InboundInit ==
    /\ \E raw \in [1..NonceLen -> RawNonceBytes] :
          /\ ini = [NoInitiator EXCEPT
                      !.pc = "stage1",
                      !.nonce = FixNonce(raw),
                      !.pattern = HandshakePacket(FixNonce(raw)),
                      !.overlap = [i \in 1..(2 * (Len(HANDSHAKE_MAGIC) + NonceLen - 1)) |-> 0]]
          /\ l_stream \in InboundStreamsOf(InboundPieces(FixNonce(raw)), MaxPieces)
    /\ wire_up = l_stream
    /\ wire_down = <<>>
    /\ rsp = NoResponder
    /\ BufIdle
    /\ l_pc = "off"
    /\ l_taken = 0
    /\ l_delivered = <<>>

InboundNext == I_Read \/ I_Eof \/ I_SendEnd \/ I_Done

---------------------------------------------------------------------------
(* async_buf_read_skip_until_pattern, utils/futures.rs:35-123, on any
   stream, cut into fills in any way.  The pattern is a sync packet with
   the marker cut to its first MarkerLen bytes; `l_stream` is the whole
   stream, `wire_up` what the reader has not been given yet, `ini.rbuf`
   what the BufReader holds after the call has returned. *)

\* The turns of the function on the bytes the BufReader holds, until it
\* returns or needs another fill.
RECURSIVE SkipOn(_)
SkipOn(st) ==
    IF st.rbuf = <<>> \/ st.pc # "stage1" THEN st
    ELSE SkipOn(SkipUntilPattern(st))

\* poll_fill_buf gives the next bytes of the stream, any number of them
\* (utils/futures.rs:62).
K_Fill ==
    /\ ini.pc = "stage1"
    /\ \E n \in 1..Len(wire_up) :
          /\ ini' = SkipOn([ini EXCEPT !.rbuf = Take(wire_up, n)])
          /\ wire_up' = Drop(wire_up, n)
    /\ UNCHANGED <<wire_down, rsp, bufVars, l_pc, l_delivered, HsOthers>>

\* The stream has ended: the function returns false (lines 52, 67-70).
K_Eof == ini.pc = "stage1" /\ I_Eof

SkipNext == K_Fill \/ K_Eof

SkipInit ==
    /\ \E raw \in [1..NonceLen -> RawNonceBytes] :
          LET nonce   == FixNonce(raw)
              pattern == Take(HANDSHAKE_MAGIC, MarkerLen) \o nonce
              bytes   == {pattern[i] : i \in 1..Len(pattern)} \cup {9}
          IN  /\ ini = [NoInitiator EXCEPT
                          !.pc = "stage1",
                          !.nonce = nonce,
                          !.pattern = pattern,
                          !.overlap = [i \in 1..(2 * (Len(pattern) - 1)) |-> 0]]
              /\ l_stream \in SeqsUpTo(bytes, MaxSkipStream)
    /\ wire_up = l_stream
    /\ wire_down = <<>>
    /\ rsp = NoResponder
    /\ BufIdle
    /\ l_pc = "off"
    /\ l_taken = 0
    /\ l_delivered = <<>>

\* No handshake: the state of its variables in the other specifications.
HsIdle ==
    /\ wire_down = <<>>
    /\ wire_up = <<>>
    /\ ini = NoInitiator
    /\ rsp = NoResponder

---------------------------------------------------------------------------
(* Function::sample, bencher/func.rs:72-131, with Function::warm_up and
   Function::bench, for a routine that calls Bencher::iter each time.  The
   link is left out but for the messages sent; the durations are in ticks
   of the host's clock. *)

\* configurations and timings
MaxWarmUpTime == 16
MaxMeasurementTime == 2
MaxSampleSize == 4
MaxCallTime == 2
MaxStep == 2

\* A measurement time with which the budget of a warm-up of 7 iterations
\* and a warm_up_time of 3 is one more than the largest u64.
LongMeasurementTime == (3 * U64 + 1) \div 7

Configs ==
    [measurement_time : (1..MaxMeasurementTime) \cup {LongMeasurementTime},
     sample_size : 0..MaxSampleSize,
     warm_up_time : 0..MaxWarmUpTime]

\* A value left in the value buffer by the benchmark before: told from
\* those of this benchmark by being no u64.
Stale == U64

NoSample ==
    [pc |-> "off", config |-> DefaultConfig, num_samples |-> 0,
     b |-> [iterated |-> FALSE, iters |-> 0, value |-> 0, elapsed_time |-> 0,
            wants_elapsed_time |-> FALSE],
     total_iters |-> 0, elapsed_time |-> 0, wu_elapsed |-> 0, wu_iters |-> 0,
     budget |-> 0, num_iters |-> 0, num_iters_per_sample |-> 0,
     out_durations |-> <<>>,
     si |-> 0, counter |-> 0, sent |-> <<>>, counts |-> <<>>, batches |-> <<>>]

SampleIdle == smp = NoSample

SampleOthers == <<codecVars, bufVars, linkVars, sessVars, hsVars>>

\* Function::sample is entered: any configuration, the value buffer as the
\* benchmark before left it, the target's counter anywhere.
SampleInit ==
    \E config \in Configs, len \in {0, ValueBufCap}, counter \in {0, U64 - 1} :
        smp = [NoSample EXCEPT !.pc = "start", !.config = config,
                               !.out_durations = [i \in 1..len |-> Stale],
                               !.counter = counter]

\* func.rs:78-88 and warm_up's Bencher, func.rs:46-56
S_Warmup ==
    /\ smp.pc = "start"
    /\ smp' = [smp EXCEPT
                 !.pc = "warm",
                 !.num_samples = NumSamples(smp.config),
                 !.sent = Append(@, Warmup(smp.config.warm_up_time)),
                 !.b = [iterated |-> FALSE, iters |-> 1, value |-> 0,
                        elapsed_time |-> 0, wants_elapsed_time |-> TRUE],
                 !.total_iters = 0,
                 !.elapsed_time = 0]
    /\ UNCHANGED SampleOthers

\* One turn of the loop of warm_up, func.rs:57-69: the routine is called
\* and calls Bencher::iter, which takes d ticks between its two readings of
\* the clock (bencher.rs:68-77); assert_iterated passes (bencher.rs:129-134).
S_WarmUpCall ==
    /\ smp.pc = "warm"
    /\ \E d \in 1..MaxCallTime :
          LET total_iters  == (smp.total_iters + smp.b.iters) % U64
              elapsed_time == smp.elapsed_time + d
              called == [smp EXCEPT !.counts = Append(@, smp.b.iters),
                                    !.b.elapsed_time = d,
                                    !.total_iters = total_iters,
                                    !.elapsed_time = elapsed_time]
          IN  smp' = IF elapsed_time > smp.config.warm_up_time
                     THEN [called EXCEPT !.pc = "warmed",
                                         !.wu_elapsed = elapsed_time,
                                         !.wu_iters = total_iters]
                     ELSE [called EXCEPT !.b.iters = (@ * 2) % U64]
    /\ UNCHANGED SampleOthers

\* func.rs:120-122 without the popping of func.rs:123-125: a faulty variant
ResizeGrowOnly(q, n) ==
    IF Len(q) >= n THEN q ELSE [i \in 1..n |-> IF i <= Len(q) THEN q[i] ELSE 0]

\* ArrayVec resized to n, func.rs:120-125
Resize(q, n) ==
    [i \in 1..n |-> IF i <= Len(q) THEN q[i] ELSE 0]

\* func.rs:96-128: the iteration counts, MeasurementStart, the value
\* buffer's length, bench's Bencher (func.rs:22-29)
S_Budget ==
    /\ smp.pc = "warmed"
    /\ LET config == smp.config
           per_sample == NumItersPerSample(config, smp.wu_iters)
           num_iters == per_sample * smp.num_samples
       IN  IF config.warm_up_time = 0 \/ config.sample_size = 0
           THEN smp' = [smp EXCEPT !.pc = "divide by zero"]
           ELSE IF num_iters >= U64
           THEN smp' = [smp EXCEPT !.pc = "iteration count overflowed"]
           ELSE smp' = [smp EXCEPT
                          !.pc = "bench",
                          !.budget = Budget(config, smp.wu_iters),
                          !.num_iters_per_sample = per_sample,
                          !.num_iters = num_iters,
                          !.sent = Append(@, MeasurementStart(smp.wu_iters,
                                      smp.wu_elapsed, smp.num_samples, num_iters)),
                          !.out_durations = Resize(@, smp.num_samples),
                          !.si = 0,
                          !.b = [iterated |-> FALSE, iters |-> per_sample,
                                 value |-> 0, elapsed_time |-> 0,
                                 wants_elapsed_time |-> FALSE]]
    /\ UNCHANGED SampleOthers

\* What Function::bench stores for the sample, func.rs:34
StoredValue(b) == b.value

\* One turn of the loop of bench, func.rs:31-35: the routine calls
\* Bencher::iter, which reads the counter, runs the batch, and reads the
\* counter again (bencher.rs:70-74)
S_BenchCall ==
    /\ smp.pc = "bench"
    /\ smp.si < smp.num_samples
    /\ \E step \in 1..MaxStep :
          LET start == smp.counter
              end   == (start + step) % U64
              b     == [smp.b EXCEPT !.value = (end - start) % U64]
          IN  smp' = [smp EXCEPT
                        !.counter = end,
                        !.b = b,
                        !.out_durations[smp.si + 1] = StoredValue(b),
                        !.si = @ + 1,
                        !.batches = Append(@, [start |-> start, end |-> end,
                                               iters |-> smp.b.iters])]
    /\ UNCHANGED SampleOthers

\* bench and sample return (func.rs:37, 130) and analysis::common sends
\* MeasurementComplete, analysis.rs:14-20
S_Complete ==
    /\ smp.pc = "bench"
    /\ smp.si = smp.num_samples
    /\ smp' = [smp EXCEPT
                 !.pc = "done",
                 !.sent = Append(@, [kind |-> "MeasurementComplete",
                                     num_iters_per_sample |-> smp.num_iters_per_sample,
                                     values |-> smp.out_durations])]
    /\ UNCHANGED SampleOthers

SampleNext == S_Warmup \/ S_WarmUpCall \/ S_Budget \/ S_BenchCall \/ S_Complete

---------------------------------------------------------------------------
(* bencher/time.rs: Duration and Instant are u64 nanoseconds.  The small   *)
(* components from here on keep their state in `smp`, one record each.     *)

\* How far from 0 and from the largest u64 the operands are drawn.
TimeEdge == 4
TimeOperands == (0..TimeEdge) \cup ((U64 - 1 - TimeEdge)..(U64 - 1))

\* `+` and `-` on u64 (time.rs:45, 62): where the true result is no u64 the
\* build decides, a panic with overflow checks (the debug profile) and the
\* result modulo 2^64 without (the release profile).
U64Op(true_value) ==
    IF true_value \in 0..(U64 - 1)
    THEN {[panic |-> FALSE, v |-> true_value]}
    ELSE {[panic |-> TRUE, v |-> 0], [panic |-> FALSE, v |-> true_value % U64]}

\* impl ops::Add for Duration, time.rs:41-48
DurationAdd(a, b) == U64Op(a + b)

\* impl ops::Sub for Instant, time.rs:57-64
InstantSub(a, b) == U64Op(a - b)

TimeInit ==
    \E a, b \in TimeOperands :
        smp = [unit |-> "time", pc |-> "start", op |-> "none", a |-> a, b |-> b,
               panic |-> FALSE, v |-> 0]

\* duration + duration, as in warm_up (func.rs:62)
Tm_Add ==
    /\ smp.pc = "start"
    /\ \E r \in DurationAdd(smp.a, smp.b) :
          smp' = [smp EXCEPT !.pc = "done", !.op = "add", !.panic = r.panic, !.v = r.v]
    /\ UNCHANGED SampleOthers

\* now() - time_start, as in Bencher::iter (bencher.rs:76)
Tm_Sub ==
    /\ smp.pc = "start"
    /\ \E r \in InstantSub(smp.a, smp.b) :
          smp' = [smp EXCEPT !.pc = "done", !.op = "sub", !.panic = r.panic, !.v = r.v]
    /\ UNCHANGED SampleOthers

TimeNext == Tm_Add \/ Tm_Sub

---------------------------------------------------------------------------
(* Criterion::benchmark_group, bencher/mod.rs, and utils/strs.rs *)

\* The capacity of GroupNameBuf (128 in mod.rs:23) and the most scalar
\* values of a name.
GroupNameCap == 4
MaxScalars == 4

\* One scalar value of each encoded length: A, e acute, the euro sign, a
\* smiley.
Utf8Scalars ==
    {<<65>>, <<195, 169>>, <<226, 130, 172>>, <<240, 159, 152, 128>>}

\* The names: the encodings of up to MaxScalars scalar values.
RECURSIVE NamesOf(_)
NamesOf(k) ==
    IF k = 0 THEN {<<>>}
    ELSE LET shorter == NamesOf(k - 1)
         IN  shorter \cup {n \o c : n \in shorter, c \in Utf8Scalars}
GroupNames == NamesOf(MaxScalars)

\* strs.rs:23-25: (x as i8) < -0x40
is_utf8_continuation(x) == x >= 128 /\ x - 256 < -64

\* The do-while of utf8_str_prev, strs.rs:15-18; s[i] of the slice is
\* s[i + 1] of the sequence.
RECURSIVE utf8_prev_loop(_, _)
utf8_prev_loop(s, i) ==
    LET j == i - 1
    IN  IF j > 0 /\ is_utf8_continuation(s[j + 1]) THEN utf8_prev_loop(s, j) ELSE j

\* utf8_str_prev, strs.rs:8-21, in a build without debug assertions
utf8_str_prev(s, i) == IF i > 0 THEN utf8_prev_loop(s, i) ELSE i

\* The second debug_assert of utf8_str_prev (strs.rs:12) holds.
OnBoundary(s, i) == i >= Len(s) \/ ~is_utf8_continuation(s[i + 1])

GroupNameInit ==
    \E name \in GroupNames :
        smp = [unit |-> "group_name", pc |-> "start", name |-> name,
               group_name |-> <<>>, sent |-> <<>>]

\* Criterion::benchmark_group, mod.rs:102-119.  Where the debug_assert of
\* utf8_str_prev does not hold the build decides: a panic with debug
\* assertions, the loop without.
G_BenchmarkGroup ==
    /\ smp.pc = "start"
    /\ LET cut == Len(smp.name) > GroupNameCap
           new_len == utf8_str_prev(smp.name, GroupNameCap)
           stored == IF cut THEN Take(smp.name, new_len) ELSE smp.name
       IN  \/ /\ cut
              /\ ~OnBoundary(smp.name, GroupNameCap)
              /\ smp' = [smp EXCEPT !.pc = "panic"]
           \/ smp' = [smp EXCEPT !.pc = "done", !.group_name = stored,
                                 !.sent = stored]
    /\ UNCHANGED SampleOthers

GroupNameNext == G_BenchmarkGroup

---------------------------------------------------------------------------
(* Arch, proxy/targets/mod.rs.  An architecture string is the sequence of  *)
(* its parts: names, and the separators "+" and "-" between them.          *)

\* The most modifiers of an architecture string.
MaxMods == 2

ArmM(version, fpu, dsp) ==
    [variant |-> "ArmM", version |-> version, fpu |-> fpu, dsp |-> dsp]
Riscv(xlen, e, m, a, c, f, d) ==
    [variant |-> "Riscv", xlen |-> xlen, e |-> e, m |-> m, a |-> a, c |-> c,
     f |-> f, d |-> d]
Armv7A == [variant |-> "Armv7A"]

\* mod.rs:146-229
NAMED_ARCHS ==
    << <<"cortex_a9", Armv7A>>,
       <<"cortex_m0", ArmM("Armv6M", FALSE, FALSE)>>,
       <<"cortex_m3", ArmM("Armv7M", FALSE, FALSE)>>,
       <<"cortex_m4", ArmM("Armv7M", FALSE, TRUE)>>,
       <<"cortex_m4f", ArmM("Armv7M", TRUE, TRUE)>>,
       <<"cortex_m23", ArmM("Armv8MBaseline", FALSE, FALSE)>>,
       <<"cortex_m33", ArmM("Armv8MMainline", FALSE, FALSE)>>,
       <<"rv32i", Riscv(32, FALSE, FALSE, FALSE, FALSE, FALSE, FALSE)>>,
       <<"rv64i", Riscv(64, FALSE, FALSE, FALSE, FALSE, FALSE, FALSE)>>,
       <<"rv32e", Riscv(32, TRUE, FALSE, FALSE, FALSE, FALSE, FALSE)>> >>

ArchErr(kind, what) == [ok |-> FALSE, kind |-> kind, what |-> what]
ArchOk(arch) == [ok |-> TRUE, arch |-> arch]

\* Option<Arch>::None
NoArch == [variant |-> "None"]

\* Arch::with_feature_by_name, mod.rs:415-450
with_feature_by_name(arch, name, enable) ==
    CASE arch.variant = "Armv7A" -> NoArch
      [] arch.variant = "ArmM" ->
           IF name \in {"fpu", "dsp"} THEN [arch EXCEPT ![name] = enable] ELSE NoArch
      [] arch.variant = "Riscv" ->
           IF name \in {"e", "m", "a", "c", "f", "d"}
           THEN [arch EXCEPT ![name] = enable] ELSE NoArch

IsSep(part) == part \in {"+", "-"}

\* s.find(&['-', '+']) from the index `i` on, or the length: indices from 1
RECURSIVE FindSep(_, _)
FindSep(s, i) ==
    IF i > Len(s) THEN Len(s) + 1
    ELSE IF IsSep(s[i]) THEN i ELSE FindSep(s, i + 1)

\* The parts s[i..k) as one name; two names on end are no name of the
\* tables, and none is the empty name.
NameAt(s, i, k) ==
    IF k = i THEN "" ELSE IF k = i + 1 THEN s[i] ELSE "?"

\* The loop of from_str, mod.rs:565-587
RECURSIVE ParseFeatures(_, _, _)
ParseFeatures(arch, s, i) ==
    IF i > Len(s) THEN ArchOk(arch)
    ELSE LET add == s[i] = "+"
             k == FindSep(s, i + 1)
             feature == NameAt(s, i + 1, k)
             next == with_feature_by_name(arch, feature, add)
         IN  IF next.variant = "None" THEN ArchErr("UnknownFeature", feature)
             ELSE ParseFeatures(next, s, k)

\* Arch::from_str, mod.rs:557-590
from_str(s) ==
    LET i == FindSep(s, 1)
        base == NameAt(s, 1, i)
        found == {n \in DOMAIN NAMED_ARCHS : NAMED_ARCHS[n][1] = base}
    IN  IF found = {} THEN ArchErr("UnknownBase", base)
        ELSE LET first == CHOOSE n \in found : \A m \in found : n <= m
             IN  ParseFeatures(NAMED_ARCHS[first][2], s, i)

\* write!(fm, "+name") if the flag is set
Plus(flag, name) == IF flag THEN <<"+", name>> ELSE <<>>

\* Display for Arch, mod.rs:469-534
Display(arch) ==
    CASE arch.variant = "Armv7A" -> <<"cortex_a9">>
      [] arch.variant = "ArmM" ->
           LET m4f == arch.version = "Armv7M" /\ arch.fpu /\ arch.dsp
               m4 == arch.version = "Armv7M" /\ ~arch.fpu /\ arch.dsp
               base == CASE arch.version = "Armv6M" -> "cortex_m0"
                         [] m4f -> "cortex_m4f"
                         [] m4 -> "cortex_m4"
                         [] arch.version = "Armv7M" /\ ~arch.dsp -> "cortex_m3"
                         [] arch.version = "Armv8MBaseline" -> "cortex_m23"
                         [] arch.version = "Armv8MMainline" -> "cortex_m33"
               fpu == arch.fpu /\ ~m4f
               dsp == arch.dsp /\ ~m4f /\ ~m4
           IN  <<base>> \o Plus(fpu, "fpu") \o Plus(dsp, "dsp")
      [] arch.variant = "Riscv" ->
           <<IF arch.e
             THEN (IF arch.xlen = 32 THEN "rv32e" ELSE "rv64e")
             ELSE (IF arch.xlen = 32 THEN "rv32i" ELSE "rv64i")>>
             \o Plus(arch.m, "m") \o Plus(arch.a, "a") \o Plus(arch.c, "c")
             \o Plus(arch.f, "f") \o Plus(arch.d, "d")

\* The architecture strings given to from_str: a named base and up to
\* MaxMods modifiers, of the features of either family.
ArchMods ==
    {<<sep, name>> : sep \in {"+", "-"},
                     name \in {"fpu", "dsp", "e", "m", "a", "c", "f", "d"}}
RECURSIVE ModsOf(_)
ModsOf(k) ==
    IF k = 0 THEN {<<>>}
    ELSE LET shorter == ModsOf(k - 1)
         IN  shorter \cup {ms \o m : ms \in shorter, m \in ArchMods}
ArchStrings ==
    {<<NAMED_ARCHS[n][1]>> \o ms : n \in DOMAIN NAMED_ARCHS, ms \in ModsOf(MaxMods)}

ArchInit ==
    \E s \in ArchStrings :
        smp = [unit |-> "arch", pc |-> "start", input |-> s,
               parsed |-> ArchErr("none", ""), shown |-> <<>>,
               reparsed |-> ArchErr("none", "")]

\* arch = input.parse()
A_Parse ==
    /\ smp.pc = "start"
    /\ LET r == from_str(smp.input)
       IN  smp' = [smp EXCEPT !.pc = IF r.ok THEN "parsed" ELSE "rejected",
                             !.parsed = r]
    /\ UNCHANGED SampleOthers

\* arch_str = arch.to_string(), mod.rs:597
A_Display ==
    /\ smp.pc = "parsed"
    /\ smp' = [smp EXCEPT !.pc = "shown", !.shown = Display(smp.parsed.arch)]
    /\ UNCHANGED SampleOthers

\* arch2 = arch_str.parse(), mod.rs:598
A_Reparse ==
    /\ smp.pc = "shown"
    /\ smp' = [smp EXCEPT !.pc = "reparsed", !.reparsed = from_str(smp.shown)]
    /\ UNCHANGED SampleOthers

ArchNext == A_Parse \/ A_Display \/ A_Reparse

---------------------------------------------------------------------------
(* target/cortex_m_time.rs: SysTick counts down from its reload value, and *)
(* on the clock after 0 loads it again and pends the SysTick exception.    *)
(* now() runs in thread mode with interrupts enabled (line 34), so the     *)
(* handler runs between any two of its instructions once pended, and       *)
(* before its isb is over at the latest.                                   *)

\* The reload value (0xffffff in cortex_m_time.rs:14) and how many times the
\* counter wraps.
Reload == 3
MaxWraps == 3

SysTickInit ==
    smp = [unit |-> "systick", pc |-> "idle", counter |-> Reload, wraps |-> 0,
           pending |-> FALSE, CYCLE |-> 0, cycle |-> 0, value |-> Reload,
           value_wraps |-> 0, last |-> 0, prev |-> 0]

\* One clock of the SysTick counter.  The handler has run before the
\* counter wraps again: it increments CYCLE once per wrap.
Y_Clock ==
    /\ smp.unit = "systick"
    /\ IF smp.counter > 0
       THEN smp' = [smp EXCEPT !.counter = @ - 1]
       ELSE /\ ~smp.pending
            /\ smp.wraps < MaxWraps
            /\ smp' = [smp EXCEPT !.counter = Reload, !.wraps = @ + 1,
                                  !.pending = TRUE]
    /\ UNCHANGED SampleOthers

\* The SysTick handler, cortex_m_time.rs:20-27 (CYCLE does not reach the
\* end of usize in MaxWraps wraps)
Y_SysTick ==
    /\ smp.unit = "systick"
    /\ smp.pending
    /\ smp' = [smp EXCEPT !.CYCLE = @ + 1, !.pending = FALSE]
    /\ UNCHANGED SampleOthers

\* now is called, or its loop starts over: cycle = CYCLE.load(), line 39
N_LoadCycle ==
    /\ smp.unit = "systick"
    /\ smp.pc \in {"idle", "again"}
    /\ smp' = [smp EXCEPT !.pc = "current", !.cycle = smp.CYCLE]
    /\ UNCHANGED SampleOthers

\* value = SYST::get_current(), line 41; `value_wraps` notes the wrap
\* period of the reading
N_GetCurrent ==
    /\ smp.pc = "current"
    /\ smp' = [smp EXCEPT !.pc = "isb", !.value = smp.counter,
                          !.value_wraps = smp.wraps]
    /\ UNCHANGED SampleOthers

\* isb, line 42: a pended exception is taken before the next instruction
N_Isb ==
    /\ smp.pc = "isb"
    /\ ~smp.pending
    /\ smp' = [smp EXCEPT !.pc = "check"]
    /\ UNCHANGED SampleOthers

\* now returning whatever CYCLE is at the second load: a faulty variant
N_CheckNever ==
    /\ smp.pc = "check"
    /\ smp' = [smp EXCEPT !.pc = "idle", !.prev = smp.last,
                          !.last = (Reload - smp.value) + (smp.cycle * (Reload + 1))]
    /\ UNCHANGED SampleOthers

\* cycle2 = CYCLE.load() and the rest of the loop, lines 43-52:
\* value ^ 0xffffff is what the counter has counted down, cycle << 24 what
\* the wraps before amount to
N_Check ==
    /\ smp.pc = "check"
    /\ LET cycle2 == smp.CYCLE
       IN  IF smp.cycle # cycle2
           THEN smp' = [smp EXCEPT !.pc = "again"]
           ELSE smp' = [smp EXCEPT !.pc = "idle", !.prev = smp.last,
                                  !.last = (Reload - smp.value)
                                              + (smp.cycle * (Reload + 1))]
    /\ UNCHANGED SampleOthers

SysTickNext ==
    Y_Clock \/ Y_SysTick \/ N_LoadCycle \/ N_GetCurrent \/ N_Isb \/ N_Check

---------------------------------------------------------------------------
(* ReadWriteRtt, proxy/targets/probe_rs.rs, and Spmc, utils/futures.rs.    *)
(* Every poll_* takes &mut self and awaits nothing, so a poll is one step; *)
(* the blocking access runs on a thread of its own.                        *)

SPMC_CONSUMER_READ == 0
SPMC_CONSUMER_WRITE == 1
Consumers == {SPMC_CONSUMER_READ, SPMC_CONSUMER_WRITE}

\* The most accesses of one run.
MaxAccess == 3

NoWakers == [c \in Consumers |-> FALSE]

\* ReadWriteRtt::new (probe_rs.rs:337-359); `job` is the blocking access,
\* `wait` what each side is pending on, `woken` whether its waker was called
\* since, `resaw` the state that a side woken by the Spmc found at its next
\* poll, `driven` the sides that have polled the inner future of the Spmc.
RttInit ==
    smp = [unit |-> "rtt", st |-> "Idle", job |-> "none", inflight |-> 0,
           started |-> 0, active |-> -1, wakers |-> NoWakers, inner_waker |-> -1,
           driven |-> {}, wait |-> [c \in Consumers |-> "idle"],
           woken |-> NoWakers, has_read |-> FALSE, write_dirty |-> FALSE,
           poll_delay |-> NoWakers, panicked |-> FALSE,
           res |-> [read |-> FALSE, wrote |-> FALSE, stalled |-> NoWakers],
           resaw |-> [c \in Consumers |-> "none"]]

\* The first arm of poll_fill_buf (probe_rs.rs:388) and of poll_flush (473)
CanProgress(s, c) ==
    IF c = SPMC_CONSUMER_READ THEN s.has_read ELSE ~s.write_dirty

\* The poll returns Ready: poll_read consumes what it was given (376).
Progress(s, c) ==
    IF c = SPMC_CONSUMER_READ
    THEN [s EXCEPT !.has_read = FALSE, !.wait[c] = "idle"]
    ELSE [s EXCEPT !.wait[c] = "idle"]

\* Spmc::poll finding the inner future ready (futures.rs:174-184): all
\* registered wakers are taken and woken.
WakeAll(s) ==
    [s EXCEPT !.woken = [k \in Consumers |-> s.woken[k] \/ s.wakers[k]],
              !.wakers = NoWakers]

\* The loop of poll_fill_buf / poll_flush (probe_rs.rs:385-410, 470-492)
\* with hit_rtt (500-565) and Spmc::poll (166-198) in it: the states the
\* poll of side `c` may leave.  A delay that is polled has elapsed or not.
RECURSIVE PollLoop(_, _)
PollLoop(s, c) ==
    IF s.st = "Idle" /\ CanProgress(s, c) THEN {Progress(s, c)}
    ELSE IF s.st = "Idle" /\ s.poll_delay[c]
    THEN {[s EXCEPT !.wait[c] = "timer"]}
            \cup PollLoop([s EXCEPT !.poll_delay[c] = FALSE], c)
    ELSE IF s.st = "Idle"
    THEN \* hit_rtt, Idle: st is Invalid while the access is spawned
         IF s.started >= MaxAccess THEN {}
         ELSE PollLoop([s EXCEPT !.st = "Access", !.job = "running",
                                 !.inflight = @ + 1, !.started = @ + 1,
                                 !.active = -1, !.wakers = NoWakers,
                                 !.inner_waker = -1, !.driven = {}], c)
    ELSE IF s.st = "Access"
    THEN LET active_consumer_index == IF s.active = -1 THEN c ELSE s.active
             a == [s EXCEPT !.active = active_consumer_index]
         IN  IF c = active_consumer_index
             THEN LET d == [a EXCEPT !.driven = @ \cup {c}]
                  IN  CASE s.job = "running" ->
                             {[d EXCEPT !.inner_waker = c, !.wait[c] = "inner"]}
                        [] s.job = "ok" ->
                             PollLoop([WakeAll(d) EXCEPT
                                         !.st = "Idle", !.job = "none",
                                         !.has_read = @ \/ s.res.read,
                                         !.write_dirty = @ /\ ~s.res.wrote,
                                         !.poll_delay = s.res.stalled], c)
                        [] s.job = "err" ->
                             {[WakeAll(d) EXCEPT !.job = "taken", !.wait[c] = "failed"]}
                        [] OTHER ->
                             \* a JoinHandle polled after it has completed
                             {[d EXCEPT !.panicked = TRUE, !.wait[c] = "failed"]}
             ELSE {[a EXCEPT !.wakers[c] = TRUE, !.wait[c] = "spmc"]}
    ELSE {[s EXCEPT !.panicked = TRUE, !.wait[c] = "failed"]}

\* One side is polled: it begins an operation (the write side with bytes to
\* flush), or its waker was called.
C_Poll ==
    /\ smp.unit = "rtt"
    /\ ~smp.panicked
    /\ \E c \in Consumers :
          /\ smp.wait[c] \in {"idle", "failed"} \/ smp.woken[c]
          /\ LET begins == smp.wait[c] \in {"idle", "failed"}
                 s0 == [smp EXCEPT
                          !.woken[c] = FALSE,
                          !.resaw[c] = IF smp.wait[c] = "spmc" THEN smp.st ELSE @,
                          !.write_dirty = @ \/ (begins /\ c = SPMC_CONSUMER_WRITE)]
             IN  smp' \in PollLoop(s0, c)
    /\ UNCHANGED SampleOthers

\* The blocking access returns (probe_rs.rs:519-525, hit_rtt_inner
\* 567-650): with an error, or with what it read and wrote and the stalled
\* flags; the JoinHandle wakes the task that polled it last.
B_Complete ==
    /\ smp.unit = "rtt"
    /\ smp.job = "running"
    /\ \E ok \in BOOLEAN, read \in BOOLEAN, wrote \in BOOLEAN,
          stalled \in [Consumers -> BOOLEAN] :
          /\ ~ok => (~read /\ ~wrote /\ stalled = NoWakers)
          /\ smp' = [smp EXCEPT
                       !.job = IF ok THEN "ok" ELSE "err",
                       !.inflight = @ - 1,
                       !.res = [read |-> read, wrote |-> wrote, stalled |-> stalled],
                       !.woken = [k \in Consumers |->
                                     smp.woken[k] \/ k = smp.inner_waker]]
    /\ UNCHANGED SampleOthers

\* delay_for(POLL_INTERVAL) elapses (probe_rs.rs:540)
D_Elapse ==
    /\ smp.unit = "rtt"
    /\ \E c \in Consumers :
          /\ smp.wait[c] = "timer"
          /\ ~smp.woken[c]
          /\ smp' = [smp EXCEPT !.woken[c] = TRUE]
    /\ UNCHANGED SampleOthers

RttNext == C_Poll \/ B_Complete \/ D_Elapse

---------------------------------------------------------------------------
(* Specifications *)

InitCodec == CodecInit /\ BufIdle /\ LinkIdle /\ SessIdle /\ HsIdle /\ SampleIdle

SpecCodec == InitCodec /\ [][CodecNext]_vars

InitLink == LinkInit /\ CodecIdle /\ SessIdle /\ HsIdle /\ SampleIdle

SpecLink == InitLink /\ [][LinkNext]_vars

Init == SessionInit /\ CodecIdle /\ BufIdle /\ LinkIdle /\ HsIdle /\ SampleIdle
Spec == Init /\ [][Next]_vars

InitHandshake == HsInit /\ CodecIdle /\ SessIdle /\ SampleIdle
SpecHandshake == InitHandshake /\ [][HsNext]_vars

InitLate == HsInit /\ CodecIdle /\ SessIdle /\ SampleIdle
SpecLate == InitLate /\ [][LateNext]_vars

InitInbound == InboundInit /\ CodecIdle /\ SessIdle /\ SampleIdle
SpecInbound == InitInbound /\ [][InboundNext]_vars

InitSkip == SkipInit /\ CodecIdle /\ SessIdle /\ SampleIdle
SpecSkip == InitSkip /\ [][SkipNext]_vars

InitTime == TimeInit /\ CodecIdle /\ BufIdle /\ LinkIdle /\ SessIdle /\ HsIdle
SpecTime == InitTime /\ [][TimeNext]_vars

InitGroupName == GroupNameInit /\ CodecIdle /\ BufIdle /\ LinkIdle /\ SessIdle /\ HsIdle
SpecGroupName == InitGroupName /\ [][GroupNameNext]_vars

InitArch == ArchInit /\ CodecIdle /\ BufIdle /\ LinkIdle /\ SessIdle /\ HsIdle
SpecArch == InitArch /\ [][ArchNext]_vars

InitSysTick == SysTickInit /\ CodecIdle /\ BufIdle /\ LinkIdle /\ SessIdle /\ HsIdle
SpecSysTick == InitSysTick /\ [][SysTickNext]_vars

InitRtt == RttInit /\ CodecIdle /\ BufIdle /\ LinkIdle /\ SessIdle /\ HsIdle
SpecRtt == InitRtt /\ [][RttNext]_vars

InitSample == SampleInit /\ CodecIdle /\ BufIdle /\ LinkIdle /\ SessIdle /\ HsIdle
SpecSample == InitSample /\ [][SampleNext]_vars

---------------------------------------------------------------------------
(* Claims on the framing *)

\* The frame without its last byte, in a buffer of its own.
FrameBody(f) == [i \in 0..(Len(f) - 1) |-> f[i + 1]]

\* C6: for every payload whose frame fits the link buffer, un-escaping (as
\* recv does) the frame that send's escaping produced yields exactly the
\* payload; and a recv call that is handed the frame returns the payload
\* (a non-empty one: recv skips the frame of an empty payload).
C6_RoundTrip ==
    c_pc = "received" =>
        /\ LET u == Unescape(FrameBody(c_frame), 0, Len(c_frame) - 1)
           IN  u.ok /\ Slice(u.buf, 0, u.packet_end) = c_payload
        /\ c_payload # <<>> => c_out = [kind |-> "msg", payload |-> c_payload]

\* A payload holding both special bytes went through send and recv.
C6_Witness ==
    /\ c_pc = "received"
    /\ c_out.kind = "msg"
    /\ \E i, j \in 1..Len(c_payload) :
          c_payload[i] = SLIP_FRAME_END /\ c_payload[j] = SLIP_FRAME_ESC

\* The image of a payload the claim describes: every 0xC0 as 0xDB 0xDC, every
\* 0xDB as 0xDB 0xDD, all other bytes unchanged and in order.
RECURSIVE C7_Escaped(_)
C7_Escaped(p) ==
    IF p = <<>> THEN <<>>
    ELSE (IF Head(p) = 192 THEN <<219, 220>>
          ELSE IF Head(p) = 219 THEN <<219, 221>>
          ELSE <<Head(p)>>) \o C7_Escaped(Tail(p))

C7_NumSpecial(p) == Cardinality({i \in 1..Len(p) : p[i] \in {192, 219}})

\* C7: for every payload that fits, the frame send writes is the escaped
\* payload followed by one 0xC0; it holds 0xC0 exactly once, as its last
\* byte, and its length is len(p) + (number of 0xC0 or 0xDB in p) + 1.
C7_FrameShape ==
    c_pc \in {"sent", "received"} =>
        /\ c_frame = C7_Escaped(c_payload) \o <<192>>
        /\ {i \in 1..Len(c_frame) : c_frame[i] = 192} = {Len(c_frame)}
        /\ Len(c_frame) = Len(c_payload) + C7_NumSpecial(c_payload) + 1

\* send has written the frame of a payload with two special bytes.
C7_Witness ==
    /\ c_pc = "sent"
    /\ C7_NumSpecial(c_payload) = 2
    /\ Len(c_frame) = LinkBufLen

\* The frames of a byte stream, by the stream alone: the stream is cut at
\* every delimiter, empty pieces are keep-alives, every other piece is
\* un-escaped as recv un-escapes it.  A piece that cannot be un-escaped ends
\* the list with <<-1>>.
RECURSIVE C8_Frames(_)
C8_Frames(s) ==
    LET ends == {i \in 1..Len(s) : s[i] = SLIP_FRAME_END}
    IN  IF ends = {} THEN <<>>
        ELSE LET e     == CHOOSE i \in ends : \A j \in ends : i <= j
                 piece == SubSeq(s, 1, e - 1)
                 rest  == SubSeq(s, e + 1, Len(s))
                 u     == Unescape(FrameBody(piece \o <<SLIP_FRAME_END>>), 0, Len(piece))
             IN  IF piece = <<>> THEN C8_Frames(rest)
                 ELSE IF u.ok THEN <<Slice(u.buf, 0, u.packet_end)>> \o C8_Frames(rest)
                 ELSE << <<-1>> >>

\* The number of stream bytes recv has consumed: the stream offset of buf_pos.
LinkConsumed == l_taken - buf_len + buf_pos

\* C8: the messages successive recv calls have returned are the frames of
\* the bytes consumed so far, however the transport split them into reads.
C8_SplitIndependent ==
    l_pc = "recv" =>
        l_delivered = C8_Frames(SubSeq(l_stream, 1, LinkConsumed))


\* recv has failed with "too large received packet".
LinkTooLarge ==
    /\ l_pc = "panic"
    /\ FindEnd(buf, buf_scan, buf_len) < 0
    /\ LinkBufLen - buf_len <= 1
    /\ buf_pos = 0

\* The bytes of the stream that recv has read and not consumed.
LinkUnread == SubSeq(l_stream, LinkConsumed + 1, l_taken)

\* C21: recv fails with "too large received packet" only with the buffer
\* full of one frame's bytes from offset 0 and no delimiter among them; and
\* every frame that with its delimiter is at most LinkBufLen - 1 bytes long
\* is returned, wherever in the buffer it starts: the messages returned are
\* the frames of the bytes consumed.
C21_FullBuffer ==
    /\ LinkTooLarge =>
          /\ Len(LinkUnread) >= LinkBufLen - 1
          /\ \A i \in 1..Len(LinkUnread) : LinkUnread[i] # SLIP_FRAME_END
    /\ l_pc = "recv" =>
          l_delivered = C8_Frames(SubSeq(l_stream, 1, LinkConsumed))

RECURSIVE BadEscape(_)
BadEscape(p) ==
    IF p = <<>> THEN FALSE
    ELSE IF p[1] # SLIP_FRAME_ESC THEN BadEscape(Tail(p))
    ELSE IF Len(p) = 1 THEN TRUE
    ELSE IF p[2] \in {SLIP_FRAME_ESC_END, SLIP_FRAME_ESC_ESC}
    THEN BadEscape(Tail(Tail(p)))
    ELSE TRUE

\* C23: when recv un-escapes a frame that holds an escape byte followed by
\* anything other than 0xDC or 0xDD, an escape byte that is the last payload
\* byte included, it fails and returns no payload.
C23_BadEscapeFatal ==
    [][(/\ l_pc = "recv"
        /\ FindEnd(buf, buf_scan, buf_len) > 0
        /\ BadEscape(Slice(buf, buf_pos, buf_scan + FindEnd(buf, buf_scan, buf_len)))) =>
            /\ l_delivered' = l_delivered
            /\ l_pc' = "panic"]_vars

\* C36: the cursors of the link are ordered within the buffer, and the bytes
\* between the read cursor and the scan cursor hold no delimiter.
C36_Cursors ==
    /\ 0 <= buf_pos
    /\ buf_pos <= buf_scan
    /\ buf_scan <= buf_len
    /\ buf_len <= LinkBufLen
    /\ \A i \in buf_pos..(buf_scan - 1) : buf[i] # SLIP_FRAME_END

\* C36's case: a frame has been returned and the part of the next one that
\* has been scanned is followed by bytes read since.
C36_Witness ==
    /\ l_pc = "recv"
    /\ l_delivered # <<>>
    /\ 0 < buf_pos
    /\ buf_pos < buf_scan
    /\ buf_scan < buf_len

\* C20: when the encoded message with one more byte for each 0xC0 and
\* 0xDB in it and one for the delimiter is longer than the link buffer,
\* send fails and has passed nothing to io.write; otherwise what it passes
\* is the frame at its full length.
C20_TooLarge ==
    c_pc \in {"sent", "received", "failed"} =>
        LET num_frame_bytes == Len(c_payload) + C7_NumSpecial(c_payload) + 1
        IN  IF num_frame_bytes > LinkBufLen
            THEN c_pc = "failed" /\ c_frame = <<>>
            ELSE /\ c_pc # "failed"
                 /\ Len(c_frame) = num_frame_bytes
                 /\ c_frame[num_frame_bytes] = SLIP_FRAME_END

\* C20's case: a message that fits the buffer by itself, but not with its
\* escape bytes and the delimiter, has been refused.
C20_Witness ==
    /\ c_pc = "failed"
    /\ Len(c_payload) + 1 <= LinkBufLen
    /\ Len(c_payload) + C7_NumSpecial(c_payload) + 1 > LinkBufLen

---------------------------------------------------------------------------
(* The session: target engine and host coordinator *)

\* The target is inside ProxyLink::recv with nothing to return.
TargetBlocked ==
    /\ t_pc \in {"AwaitGreeting", "Now1", "Now2", "BenchWait", "GroupWait"}
    /\ ~RxReady

\* The coordinator is inside target_link.recv with nothing to return.
CoordinatorBlocked == h_pc = "Loop" /\ up = <<>>

\* C2: in Benchmark mode the composition of the target engine with the
\* coordinator of dumbfront never reaches a state where the target is
\* blocked waiting for a downstream message while the coordinator is
\* blocked waiting for the next upstream message.
C2_NoDeadlock ==
    ~(h_frontend = "dumb" /\ t_mode = "Benchmark" /\ t_pc # "AwaitGreeting"
        /\ TargetBlocked /\ CoordinatorBlocked)

WaitMessages == {"FinishedBenchmarkGroup", "MeasurementComplete"}

\* C3: after the target has sent FinishedBenchmarkGroup or
\* MeasurementComplete, the next thing it does is to receive a downstream
\* message: nothing is sent and no routine is called before.  Continue
\* takes it on (to the next benchmark of the group after
\* MeasurementComplete, out of the group after FinishedBenchmarkGroup); any
\* other message is fatal.
C3_WaitsForContinue ==
    [][(t_ev.op = "tx" /\ t_ev.kind \in WaitMessages) =>
         \/ UNCHANGED engVars
         \/ /\ t_ev'.op = "rx"
            /\ t_sent' = t_sent
            /\ t_pc' = IF t_ev'.kind # "Continue" THEN "Panic"
                       ELSE IF t_ev.kind = "MeasurementComplete" THEN "InGroup"
                       ELSE "Groups"]_vars

\* C3's case: a group with a measured benchmark has been left on Continue.
C3_Witness ==
    /\ t_ev = [op |-> "rx", kind |-> "Continue"]
    /\ t_pc = "Groups"
    /\ Len(t_sent) >= 6
    /\ t_sent[Len(t_sent)] = "FinishedBenchmarkGroup"
    /\ t_sent[Len(t_sent) - 1] = "MeasurementComplete"

\* C4: the coordinator answers an upstream message with exactly one
\* Continue if the message is FinishedBenchmarkGroup or MeasurementComplete,
\* and with no Continue otherwise.
C4_ContinuePerWait ==
    h_last.msg # "none" =>
        (h_last.reply = "Continue" <=> h_last.msg \in WaitMessages)

\* C5: in Test mode the engine waits for Continue only after
\* FinishedBenchmarkGroup: after the single call of a benchmark's routine it
\* goes on to the next benchmark.
C5_TestWaitsOnlyAfterGroup ==
    (t_mode = "Test" /\ t_pc \in {"BenchWait", "GroupWait"}) =>
        (t_ev.op = "tx" /\ t_ev.kind = "FinishedBenchmarkGroup")

\* Whether the messages s[i..] keep to the nesting, with `g` telling that a
\* group is open before s[i] and `o` that a benchmark is.
RECURSIVE C9_Nested(_, _, _, _)
C9_Nested(s, i, g, o) ==
    IF i > Len(s) THEN TRUE
    ELSE CASE s[i] = "BeginningBenchmarkGroup" -> ~g /\ C9_Nested(s, i + 1, TRUE, o)
           [] s[i] = "FinishedBenchmarkGroup"  -> g /\ C9_Nested(s, i + 1, FALSE, o)
           [] s[i] = "BeginningBenchmark"      -> g /\ ~o /\ C9_Nested(s, i + 1, g, TRUE)
           [] s[i] = "MeasurementComplete"     -> C9_Nested(s, i + 1, g, FALSE)
           [] OTHER                            -> C9_Nested(s, i + 1, g, o)

\* C9: in the upstream messages sent so far BeginningBenchmarkGroup and
\* FinishedBenchmarkGroup alternate, starting with BeginningBenchmarkGroup;
\* every BeginningBenchmark comes while a group is open and no benchmark is;
\* and the assertions of ccfront have not failed.
C9_OneOpen ==
    /\ C9_Nested(t_sent, 1, FALSE, FALSE)
    /\ h_frontend = "cc" => h_pc # "Failed"

\* The messages a benchmark sends, in order.
BenchmarkMessages ==
    <<"BeginningBenchmark", "Warmup", "MeasurementStart", "MeasurementComplete">>

\* Whether the messages s[i..] are those of whole benchmarks, but for the
\* last, which may be under way; `g` tells that a group is open before s[i]
\* and `n` how many messages the benchmark under way has sent (0: none is).
RECURSIVE C10_InOrder(_, _, _, _)
C10_InOrder(s, i, g, n) ==
    IF i > Len(s) THEN TRUE
    ELSE CASE s[i] = "BeginningBenchmarkGroup" -> n = 0 /\ C10_InOrder(s, i + 1, TRUE, 0)
           [] s[i] \in {"FinishedBenchmarkGroup", "End"} ->
                  n = 0 /\ C10_InOrder(s, i + 1, FALSE, 0)
           [] OTHER -> /\ g
                       /\ s[i] = BenchmarkMessages[n + 1]
                       /\ C10_InOrder(s, i + 1, g, (n + 1) % 4)

\* How many MeasurementComplete there are in s[1..i] after the last
\* BeginningBenchmarkGroup.
RECURSIVE C10_Completed(_, _)
C10_Completed(s, i) ==
    IF i = 0 \/ s[i] = "BeginningBenchmarkGroup" THEN 0
    ELSE C10_Completed(s, i - 1) + (IF s[i] = "MeasurementComplete" THEN 1 ELSE 0)

\* C10: in Benchmark mode the upstream messages other than GetInstant are,
\* for each benchmark, BeginningBenchmark, Warmup, MeasurementStart and
\* MeasurementComplete in this order and once each, after the
\* BeginningBenchmarkGroup of the benchmark's group and before anything
\* else of the group; a benchmark that has run has sent all four, and the
\* group has as many MeasurementComplete as benchmarks that have run.
C10_BenchmarkMessages ==
    t_mode = "Benchmark" =>
        /\ C10_InOrder(t_sent, 1, FALSE, 0)
        /\ t_pc = "InGroup" => C10_Completed(t_sent, Len(t_sent)) = bi
        /\ t_pc = "BenchWait" =>
              /\ Len(t_sent) >= 5
              /\ SubSeq(t_sent, Len(t_sent) - 3, Len(t_sent)) = BenchmarkMessages

\* C10's case: a benchmark has run, after another of its group, with the
\* clock readings of its warm-up between Warmup and MeasurementStart.
C10_Witness ==
    /\ t_mode = "Benchmark"
    /\ t_pc = "BenchWait"
    /\ bi = 1
    /\ locals.calls > SampleSize
    /\ h_frontend = "cc"

\* C11: End is sent once and is the last upstream message; when a group
\* was begun, the message before End is the FinishedBenchmarkGroup of the
\* last group (which the engine leaves only on Continue); and a front-end
\* that has received End has stopped without an answer to it.
C11_EndLast ==
    /\ \A i \in 1..Len(t_sent) : t_sent[i] = "End" => i = Len(t_sent)
    /\ t_pc = "Ended" <=> (t_sent # <<>> /\ t_sent[Len(t_sent)] = "End")
    /\ (Len(t_sent) >= 2 /\ t_sent[Len(t_sent)] = "End") =>
          t_sent[Len(t_sent) - 1] = "FinishedBenchmarkGroup"
    /\ (h_frontend # "free" /\ h_last.msg = "End") =>
          (h_last.reply = "none" /\ h_pc = "Done")

\* C12: Measurement::now is a round trip.  After GetInstant the next thing
\* the target does is to receive a downstream message: nothing is sent and
\* no routine is called before; the message is Instant or the target fails.
\* A front-end that takes a GetInstant writes one Instant and nothing
\* else, and writes an Instant for no other reason.
C12_NowRoundTrip ==
    [][/\ (t_ev.op = "tx" /\ t_ev.kind = "GetInstant") =>
             \/ UNCHANGED engVars
             \/ /\ t_ev'.op = "rx"
                /\ t_sent' = t_sent
                /\ locals'.calls = locals.calls
                /\ t_pc' = "Panic" <=> t_ev'.kind # "Instant"
       /\ (h_frontend # "free" /\ up # <<>> /\ up' = Tail(up)
              /\ Head(up).kind = "GetInstant") =>
             \E x \in 0..MaxClock : down' = Append(down, Instant(x))
       /\ (h_frontend # "free" /\ Len(down') > Len(down)
              /\ down'[Len(down')].kind = "Instant") =>
             (up # <<>> /\ Head(up).kind = "GetInstant" /\ up' = Tail(up))]_vars

\* C12's case: both readings of a timed call have come back from dumbfront.
C12_Witness ==
    /\ h_frontend = "dumb"
    /\ t_pc = "Returned"
    /\ t_ev = [op |-> "rx", kind |-> "Instant"]
    /\ bencher.elapsed_time > 0

\* C17: when a call of the routine has returned with no call of
\* Bencher::iter or iter_custom since the routine was entered, the next
\* thing the engine does is to fail, with nothing sent; and it does
\* nothing after it has failed.  What earlier calls did does not count.
C17_MustIterate ==
    [][/\ (t_pc = "Returned" /\ t_ev.op = "call") =>
             \/ UNCHANGED engVars
             \/ t_pc' = "Panic" /\ t_sent' = t_sent /\ t_ev' = t_ev
       /\ t_pc = "Panic" => UNCHANGED engVars]_vars

\* C17's case: a routine that iterated all through the warm-up and in the
\* first sample has returned from a later call without, and the engine
\* has failed.
C17_Witness ==
    /\ t_pc = "Panic"
    /\ t_ev.op = "call"
    /\ locals.ctx = "bench"
    /\ t_mode = "Benchmark"
    /\ locals.si >= 1

\* The engine is in a call of the routine.
InRoutine ==
    t_pc \in {"Routine", "Now1", "Timed", "Batch", "Timed2", "Now2", "Returned"}

\* C18: in Test mode a benchmark's routine is called once, with an
\* iteration count of 1, and neither Warmup nor MeasurementStart nor
\* MeasurementComplete is sent.
C18_TestOnce ==
    t_mode = "Test" =>
        /\ \A i \in 1..Len(t_sent) :
              t_sent[i] \notin {"Warmup", "MeasurementStart", "MeasurementComplete"}
        /\ locals.calls <= 1
        /\ InRoutine => bencher.iters = 1
        /\ t_pc = "BenchWait" => (locals.calls = 1 /\ bencher.iters = 1)

\* C18's case: the second benchmark of a group has been run in Test mode.
C18_Witness ==
    /\ t_mode = "Test"
    /\ t_pc = "BenchWait"
    /\ bi = 1

---------------------------------------------------------------------------
C38_QuietBatch ==
    [][/\ t_pc = "Batch" =>
             /\ t_sent' = t_sent /\ t_rx' = t_rx
             /\ Len(up') <= Len(up) /\ Len(down') >= Len(down)
             /\ t_pc' \in {"Batch", "Timed2", "Returned"}
             /\ t_pc' # "Batch" => t_ev' = [op |-> "value", kind |-> "end"]
       /\ (t_pc # "Batch" /\ t_pc' = "Batch") =>
             /\ t_ev.op \in {"rx", "iter"}
             /\ t_ev.op = "rx" <=> bencher.wants_elapsed_time
             /\ t_ev' = [op |-> "value", kind |-> "start"]
       /\ (t_pc # "Now2" /\ t_pc' = "Now2" /\ locals.kind = "iter") =>
             t_ev = [op |-> "value", kind |-> "end"]
       /\ (locals.ctx = "bench" /\ locals.kind = "iter") =>
             t_pc' \notin {"Now1", "Now2"}]_vars

\* C38's case: a sample has been taken by a routine that uses iter, after
\* a warm-up.
C38_Witness ==
    /\ t_mode = "Benchmark"
    /\ locals.ctx = "bench"
    /\ locals.kind = "iter"
    /\ t_pc = "Returned"
    /\ t_ev = [op |-> "value", kind |-> "end"]

\* C29: the coordinator's first message is Greeting and it sends no other
\* Greeting; the target sends nothing before it has received its first
\* message, goes on when that is Greeting and fails when it is anything
\* else.
C29_GreetingFirst ==
    [][/\ (h_frontend # "free" /\ Len(down') > Len(down)) =>
             ((down'[Len(down')].kind = "Greeting") <=> (h_pc = "Start"))
       /\ h_pc' = "Start" => h_pc = "Start" /\ down' = <<>>
       /\ t_pc = "AwaitGreeting" => t_sent = <<>> /\ up = <<>> /\ t_ev.op # "tx"
       /\ (t_pc = "AwaitGreeting" /\ t_pc' # "AwaitGreeting") =>
             t_pc' = (IF RxMsg.kind = "Greeting" THEN "Groups" ELSE "Panic")]_vars

\* C29's case: the coordinator has greeted and the target, having received
\* the greeting, has sent its first message.
C29_Witness ==
    /\ h_frontend # "free"
    /\ h_pc = "Loop"
    /\ Len(t_sent) = 1

(* Function::sample *)

RECURSIVE SumSeq(_)
SumSeq(q) == IF q = <<>> THEN 0 ELSE Head(q) + SumSeq(Tail(q))

\* Function::warm_up has returned.
WarmedUp == smp.pc \notin {"off", "start", "warm"}

\* C13: with every call of the routine taking between 1 and MaxCallTime
\* ticks, warm_up makes no more calls than its goal has ticks, plus one;
\* the k-th call is made with an iteration count of 2^(k-1); and when it
\* has returned, the elapsed time it returns is at least the goal and the
\* iteration total it returns is the sum of the counts of all calls made.
C13_WarmUp ==
    /\ Len(smp.counts) <= smp.config.warm_up_time + 1
    /\ \A k \in 1..Len(smp.counts) : smp.counts[k] = 2 ^ (k - 1)
    /\ WarmedUp =>
          /\ smp.wu_elapsed >= smp.config.warm_up_time
          /\ smp.wu_iters = SumSeq(smp.counts)

\* Function::sample has got past its arithmetic.
Sampling == smp.pc \in {"bench", "done"}

\* C14: the iteration budget is the warm-up's iteration total times the
\* configured measurement time, divided by the elapsed time that the
\* warm-up returned, rounded down.
C14_BudgetFromElapsed ==
    Sampling =>
        smp.budget = (smp.wu_iters * smp.config.measurement_time) \div smp.wu_elapsed

\* C15: whenever Function::sample gets to sampling, the iteration count
\* per sample is at least 1, and the num_iters of MeasurementStart is that
\* count times the number of samples taken, as a number below 2^64.
C15_ExactIterations ==
    Sampling =>
        LET start == smp.sent[2]
        IN  /\ start.kind = "MeasurementStart"
            /\ smp.num_iters_per_sample >= 1
            /\ start.num_iters = smp.num_iters_per_sample * start.num_samples
            /\ start.num_iters < U64
            /\ smp.pc = "done" => Len(smp.batches) = start.num_samples

\* C16: no sample_size makes Function::sample fail; the sample count N is
\* sample_size brought into 1..capacity; the iteration count per sample is
\* the budget divided by N, or 1 if that is more; and N samples are taken.
C16_ClampedDivisor ==
    LET N == Min(Max(smp.config.sample_size, 1), ValueBufCap)
    IN  /\ smp.pc = "divide by zero" => smp.config.warm_up_time = 0
        /\ Sampling =>
              /\ smp.num_samples = N
              /\ smp.num_iters_per_sample = Max(1, smp.budget \div N)
              /\ Len(smp.out_durations) = N
              /\ smp.pc = "done" => Len(smp.batches) = N

\* C19: the values of MeasurementComplete are as many as the samples of
\* the benchmark; the i-th is the difference, modulo 2^64, of the counter
\* readings around the i-th batch; every batch has num_iters_per_sample
\* iterations; and no value is one that the benchmark before left.
C19_ValuePerSample ==
    smp.pc = "done" =>
        LET complete == smp.sent[3]
            values   == complete.values
        IN  /\ complete.kind = "MeasurementComplete"
            /\ Len(values) = smp.num_samples
            /\ Len(smp.batches) = smp.num_samples
            /\ \A i \in 1..Len(values) :
                  /\ values[i] # Stale
                  /\ values[i] = (smp.batches[i].end - smp.batches[i].start) % U64
                  /\ smp.batches[i].iters = complete.num_iters_per_sample

\* C19's case: a benchmark of two samples and more than one iteration per
\* sample is complete, the counter having wrapped during the first sample.
C19_Witness ==
    /\ smp.pc = "done"
    /\ smp.num_samples = 2
    /\ smp.num_iters_per_sample > 1
    /\ smp.batches[1].end < smp.batches[1].start

---------------------------------------------------------------------------
(* The handshake *)

\* What async_buf_read_skip_until_pattern has consumed of the stream.
SkipConsumed == Len(l_stream) - Len(wire_up) - Len(ini.rbuf)

\* C30: when the function has returned true, it has consumed the stream up
\* to and including the first occurrence of the pattern; when it has
\* returned false, the stream holds no occurrence.  (It returns at the end
\* of the stream at the latest, so it returns true whenever the pattern
\* occurs.)
C30_SkipUntilPattern ==
    LET at == slice_find(l_stream, ini.pattern)
    IN  /\ ini.pc = "stage2" => at >= 0 /\ SkipConsumed = at + Len(ini.pattern)
        /\ ini.pc = "eof1" => at < 0

\* The echoes among the packets the responder has written.
Echoes == SelectSeq(rsp.written, LAMBDA w : w # HANDSHAKE_END_MAGIC)

RECURSIVE SyncPackets(_)
SyncPackets(k) ==
    IF k = 0 THEN <<>> ELSE HandshakePacket(ini.nonce) \o SyncPackets(k - 1)

\* C39: the initiator's outbound stream is whole sync packets, then the
\* part of one more that is being written, then the end marker, then the
\* Greeting frame of a handshake that succeeded; and the end marker is never
\* there while a sync packet is partly written, so no byte of a sync packet
\* follows the first byte of the end marker.
C39_WholePackets ==
    /\ ini.end_sent => ini.wpos = 0
    /\ ini.outb = SyncPackets(ini.sent)
                      \o Take(HandshakePacket(ini.nonce), ini.wpos)
                      \o (IF ini.end_sent THEN HANDSHAKE_END_MAGIC ELSE <<>>)
                      \o (IF ini.pc = "greeted" THEN write_frame(ini.greeting)
                                                ELSE <<>>)

\* C39's case: stage 1 is over while a sync packet is partly written, and
\* the end marker has to wait for the rest of it.
C39_Witness ==
    /\ ini.pc = "stage2"
    /\ ini.wpos > 0
    /\ ini.sent >= 1
    /\ ~ENABLED I_SendEnd

\* C40: no byte of the nonce is the first byte of either marker; and a
\* responder whose inbound stream begins `rsp.lost` bytes into the sync
\* packets of the initiator has echoed, at every point, one packet for each
\* sync packet that lies wholly between that offset and the place it has
\* read up to, each echo the very packet of the initiator.
C40_LocksOn ==
    LET plen == Len(HandshakePacket(ini.nonce))
        pos == Len(ini.outb) - Len(wire_down)
        upto == Min(pos, (ini.sent * plen) + ini.wpos)
        first == (rsp.lost + plen - 1) \div plen
        whole == upto \div plen
    IN  /\ \A i \in DOMAIN ini.nonce :
              ini.nonce[i] \notin {HANDSHAKE_MAGIC[1], HANDSHAKE_END_MAGIC[1]}
        /\ \A k \in 1..Len(Echoes) : Echoes[k] = HandshakePacket(ini.nonce)
        /\ Len(Echoes) = (IF whole > first THEN whole - first ELSE 0)
        /\ rsp.pc # "panic"

\* C40's case: the stream of the responder began inside a sync packet, and
\* the responder has echoed the packet after it.
C40_Witness ==
    /\ rsp.lost % Len(HandshakePacket(ini.nonce)) # 0
    /\ Len(Echoes) >= 1
    /\ ini.nonce[1] = 255

\* C26: as long as stage 2 of the initiator is not over, one of the peers
\* can take a step: the initiator can write its end marker whatever is left
\* to drain (once the sync packet it was writing is out), or read, or the
\* responder can read.
C26_Stage2Live ==
    (ini.pc = "stage2" /\ ~(ini.p1done /\ ini.end_sent)) =>
        ENABLED (I_SendSync \/ I_SendEnd \/ I_Read \/ R_Handshake)

\* C26's case: the initiator has written its end marker while echoes it has
\* not drained are in flight, and the responder has not written its own.
C26_Witness ==
    /\ ini.pc = "stage2"
    /\ ini.end_sent
    /\ ~ini.p1done
    /\ rsp.pc = "handshake"
    /\ Len(wire_up) >= 2 * Len(ini.pattern)

\* C27 as stated: when framed operation begins the initiator has written
\* the end marker twice, once at the start of stage 2 and once after the
\* responder's.
C27_EndTwice == ini.pc \in {"done", "greeted"} => ini.ends = 2

\* C27, amended: the initiator writes the end marker once in a handshake,
\* in stage 2; having read the responder's end marker it writes nothing
\* more before framed operation begins.
C27_EndOnce ==
    /\ ini.ends = (IF ini.end_sent THEN 1 ELSE 0)
    /\ ini.pc \in {"done", "greeted"} => ini.ends = 1
    /\ ini.pc = "stage1" => ini.ends = 0

\* C27's case: the initiator has read the responder's end marker and its
\* handshake is over.
C27_Witness ==
    /\ ini.pc = "done"
    /\ ini.p1done
    /\ ini.ends = 1

\* What the initiator has consumed of its inbound stream.
InboundConsumed == Take(l_stream, Len(l_stream) - Len(wire_up) - Len(ini.rbuf))

\* C28: the drain of stage 2 is over, and the handshake of the initiator
\* with it, only when the last bytes the initiator has consumed are the end
\* marker, byte for byte.
C28_ExactEnd ==
    (ini.p1done \/ ini.pc \in {"done", "greeted"}) =>
        /\ Len(InboundConsumed) >= Len(HANDSHAKE_END_MAGIC)
        /\ Drop(InboundConsumed, Len(InboundConsumed) - Len(HANDSHAKE_END_MAGIC))
              = HANDSHAKE_END_MAGIC

\* C24: stage 1 is over and stage 2 begun only when the inbound stream read
\* so far holds the sync marker followed by the nonce of this attempt.
C24_OwnEchoOnly ==
    ini.pc = "stage2" =>
        slice_find(Take(l_stream, SkipConsumed), ini.pattern) >= 0

\* The handshake part of C1: neither peer fails; the model stops only with
\* both peers through; the responder returns having read all the initiator
\* wrote for the handshake and nothing more, and so does the initiator.
HsConverges ==
    /\ ini.pc # "failed"
    /\ rsp.pc # "panic"
    /\ (~ENABLED HsNext) => (ini.pc = "greeted" /\ rsp.pc = "done")
    /\ rsp.pc = "done" =>
          /\ rsp.dropped = 0
          /\ ini.pc # "greeted" => wire_down = <<>>
    /\ ini.pc \in {"done", "greeted"} =>
          /\ rsp.pc = "done"
          /\ ini.rbuf = <<>>
          /\ wire_up = <<>>

\* C1: whatever the number of sync packets written before the first echo
\* and whichever peer moves first, both peers complete the handshake
\* having consumed exactly what the other wrote for it, and the Greeting
\* frame sent next is what the responder's first recv returns, intact.
C1_HandshakeConverges ==
    /\ HsConverges
    /\ l_pc # "panic"
    /\ (ini.pc = "greeted" /\ wire_down = <<>> /\ buf_pos = buf_len) =>
          l_delivered = <<ini.greeting>>

---------------------------------------------------------------------------
(* Claims on the time arithmetic *)

\* C33: Duration addition and Instant subtraction are checked: whenever they
\* yield a Duration it is the true sum or the true difference, never one
\* that has wrapped around 2^64.
C33_CheckedTime ==
    (smp.unit = "time" /\ smp.pc = "done" /\ ~smp.panic) =>
        smp.v = (IF smp.op = "add" THEN smp.a + smp.b ELSE smp.a - smp.b)


---------------------------------------------------------------------------
(* Claims on the group name *)

\* The longest prefix of `name` that ends on a scalar boundary and is no
\* longer than the buffer.
LongestFit(name) ==
    LET fits == {k \in 0..Min(Len(name), GroupNameCap) :
                    k = Len(name) \/ ~is_utf8_continuation(name[k + 1])}
    IN  Take(name, CHOOSE k \in fits : \A m \in fits : m <= k)

\* C35: benchmark_group never fails, and what it stores and sends in
\* BeginningBenchmarkGroup is the longest prefix of the name that ends on a
\* scalar boundary and fits in the buffer, the whole name when it fits.
C35_LongestPrefix ==
    smp.unit = "group_name" =>
        /\ smp.pc # "panic"
        /\ smp.pc = "done" =>
              /\ smp.group_name = LongestFit(smp.name)
              /\ smp.sent = LongestFit(smp.name)


---------------------------------------------------------------------------
(* Claims on Arch *)

\* C34: an Arch that from_str makes of a named base and modifiers, when
\* formatted and parsed again, is parsed, and is the same Arch.
C34_RoundTrip ==
    (smp.unit = "arch" /\ smp.pc = "reparsed") =>
        /\ smp.reparsed.ok
        /\ smp.reparsed.ok => smp.reparsed.arch = smp.parsed.arch


---------------------------------------------------------------------------
(* Claims on cortex_m_time *)

\* C32: what now returns is made of a counter reading and of the CYCLE of
\* the wrap period of that reading, and is no less than what the call
\* before returned.
C32_NowConsistent ==
    (smp.unit = "systick" /\ smp.pc = "idle") =>
        /\ smp.cycle = smp.value_wraps
        /\ smp.last = (Reload - smp.value) + (smp.value_wraps * (Reload + 1))
        /\ smp.prev <= smp.last

\* C32's case: now has returned a time of a later wrap period than its call
\* before, with the counter wrapped again and the handler yet to run.
C32_Witness ==
    /\ smp.unit = "systick"
    /\ smp.pc = "idle"
    /\ smp.last > smp.prev
    /\ smp.cycle >= 1
    /\ smp.prev > 0
    /\ smp.pending


---------------------------------------------------------------------------
(* Claims on ReadWriteRtt *)

\* C31: at most one blocking access is in flight; no poll leaves or finds
\* the Invalid state; the side that polled the Spmc first is the one side
\* that polls its inner future; the other side stays registered until the
\* access is over and is woken then; and a side woken so finds the Idle
\* state at its next poll.
C31_OneAccess ==
    smp.unit = "rtt" =>
        /\ smp.inflight <= 1
        /\ smp.st # "Invalid"
        /\ smp.driven \subseteq (IF smp.active = -1 THEN {} ELSE {smp.active})
        /\ \A c \in Consumers :
              (smp.wait[c] = "spmc" /\ ~smp.woken[c]) =>
                  (smp.st = "Access" /\ smp.wakers[c] /\ smp.job # "none")
        /\ \A c \in Consumers : smp.resaw[c] \in {"none", "Idle"}


=========================================================================
